---------------------------- MODULE Spec2Model ----------------------------
(***************************************************************************)
(* The REST resource router (server/routes.ts) and the persistence gateway *)
(* (server/storage.ts) over the relational tables of shared/schema.ts.     *)
(*                                                                         *)
(* Every `await db...` statement of a handler is one atomic step: the      *)
(* store commits each statement on its own and the handlers open no        *)
(* transaction, so requests interleave between statements.  The store      *)
(* enforces the constraints the schema declares (primary keys from serial  *)
(* sequences, UNIQUE columns, foreign keys with the default NO ACTION); a  *)
(* statement that violates one throws, and the handler's catch turns the   *)
(* exception into a 500 response.                                          *)
(*                                                                         *)
(* Of the timestamp columns, those a query orders by are represented       *)
(* (activities.timestamp, tenders.createdAt), as ranks: defaultNow() gives *)
(* a new row the latest stored time or a later one.                        *)
(***************************************************************************)
EXTENDS Integers, Sequences, FiniteSets, TLC

\* ----------------------------------------------------------------- bounds
\* Largest value a serial sequence hands out in the model.
MaxId == 2
\* Number of HTTP requests issued in one behaviour.
MaxRequests == 4

\* Activity rows in the store when a feed behaviour starts.
MaxActivities == 6
\* Largest limit a feed request names.
MaxLimit == 2

\* Concurrent request handlers.
Procs == {1, 2}

\* ------------------------------------------------------------ value domains
\* SQL NULL / JS undefined for an integer column or field.
NULL == 0
\* What parseInt gives for a path parameter that is not a number.
NaN == -1
IsNaN(n) == n = NaN

Ids == 1..MaxId
\* Path parameters :id after parseInt: an existing or absent id, or NaN.
IdParams == Ids \cup {NaN}
\* Optional foreign keys in request bodies: absent, or any id.
OptRefs == {NULL} \cup Ids

Usernames == {"alice", "bob"}

VARIABLES
  users,      \* table users:     id -> [id, username, password, name, roleId]
  roles,      \* table roles:     id -> [id, name]
  clients,    \* table clients:   id -> [id, name]
  companies,  \* table companies: id -> [id, name]
  customers,  \* table customers: id -> [id, name]
  leads,      \* table leads:     id -> [id, title, companyId, assignedTo]
  tenders,    \* table tenders:   id -> [id, referenceNumber, title, createdBy]
  documents,  \* table documents: id -> [id, tenderId]
  activities, \* table activities: id -> [id, tenderId, activityType, description, userId]
  seq,        \* the serial sequence of each table: table name -> last value
  rq,         \* per handler: the request in flight, its locals and its response
  sent        \* number of requests issued so far

tables == <<users, roles, clients, companies, customers, leads, tenders,
            documents, activities>>
vars == <<users, roles, clients, companies, customers, leads, tenders,
          documents, activities, seq, rq, sent>>

TableNames == {"users", "roles", "clients", "companies", "customers", "leads",
               "tenders", "documents", "activities"}

\* ------------------------------------------------------------------ helpers
EmptyTable == [i \in {} |-> i]
Rows(t) == {t[i] : i \in DOMAIN t}

\* An insert that leaves the new row alone in the table.
InsertAlone(t, row) == row.id :> row

\* insert ... returning: the row gets the next value of the serial sequence.
Insert(t, row) == t @@ (row.id :> row)
\* delete ... where id = i (no row: nothing deleted, no error).
Delete(t, i) == [j \in DOMAIN t \ {i} |-> t[j]]
\* An update that replaces the record: a reference the payload leaves out
\* falls back to NULL.
ReplaceRow(row, patch) ==
  [f \in DOMAIN row |->
     IF f \in DOMAIN patch THEN patch[f]
     ELSE IF f \in {"clientId", "companyId", "createdBy", "roleId",
                   "assignedTo"} THEN NULL
     ELSE row[f]]
\* update ... set patch: the columns the patch names are overwritten; keys
\* that are not columns of the table are ignored.
Merge(row, patch) ==
  [f \in DOMAIN row |-> IF f \in DOMAIN patch THEN patch[f] ELSE row[f]]
\* An optional field of a request body.
Field(b, f, default) == IF f \in DOMAIN b THEN b[f] ELSE default
\* x || d for an optional id.
OrDefault(x, d) == IF x = NULL THEN d ELSE x

\* The latest of a set of stored times (0: none stored).
LatestTime(times) ==
  IF times = {} THEN 0 ELSE CHOOSE m \in times : \A x \in times : x <= m
\* defaultNow() for a row inserted into a table holding `times`: the clock
\* does not run backwards; two inserts can fall on one clock reading.
Now(times) == {LatestTime(times), LatestTime(times) + 1} \ {0}

Min(a, b) == IF a <= b THEN a ELSE b
\* .limit(n) on an ordered result.
Take(l, n) == SubSeq(l, 1, Min(n, Len(l)))

\* The rows of S in any order whatever.
RECURSIVE AnyOrder(_, _)
AnyOrder(S, f) ==
  IF S = {} THEN {<< >>}
  ELSE UNION {{<<r>> \o l : l \in AnyOrder(S \ {r}, f)} : r \in S}

\* orderBy(desc(f)): the orders of the rows of S in which column f never
\* increases; rows equal in f come in any order.
RECURSIVE NewestFirst(_, _)
NewestFirst(S, f) ==
  IF S = {} THEN {<< >>}
  ELSE UNION {{<<r>> \o l : l \in NewestFirst(S \ {r}, f)} :
                r \in {x \in S : \A y \in S : y[f] <= x[f]}}

\* A request slot.  status 0: no response sent yet.
\* tmp: the row a handler holds in a local between statements.
\* log: the Activity rows inserted so far on behalf of this operation.
\* client, currentUser: the page that issued the request and the user id its
\* /api/users/current query holds (NULL: none loaded).
\* list, total: an ordered list in the response body and the count sent
\* with it.
\* removed: the Document rows deleted so far on behalf of this operation.
Idle ==
  [op |-> "none", pc |-> "done", id |-> NULL, body |-> EmptyTable,
   status |-> 0, out |-> {}, usersCount |-> 0, tmp |-> EmptyTable,
   log |-> {}, client |-> "none", currentUser |-> NULL,
   list |-> << >>, total |-> 0, removed |-> {}]

Free(p) == rq[p].pc = "done" /\ sent < MaxRequests

\* A request reaches the router: handler p holds it, no statement has run yet.
Arrive(p, requests) ==
  /\ Free(p)
  /\ sent' = sent + 1
  /\ \E r \in requests : rq' = [rq EXCEPT ![p] = r]
  /\ UNCHANGED <<users, roles, clients, companies, customers, leads, tenders,
                 documents, activities, seq>>

\* Handler p is about to run the statement at `pc` of route `o`.
At(p, o, pc) == rq[p].op = o /\ rq[p].pc = pc

\* res.status(s).json(rows) / .end(): the handler is finished.
Respond(p, s, rows) ==
  rq' = [rq EXCEPT ![p] = [@ EXCEPT !.pc = "done", !.status = s, !.out = rows]]
\* res.json(list): an ordered list as the response body.
RespondList(p, s, l) ==
  rq' = [rq EXCEPT ![p] = [@ EXCEPT !.pc = "done", !.status = s, !.list = l]]
\* The handler keeps `row` in a local and goes on to the statement at `pc`.
Hold(p, row, pc) == rq' = [rq EXCEPT ![p] = [@ EXCEPT !.pc = pc, !.tmp = row]]
\* The handler goes on to its next statement.
Goto(p, pc) == rq' = [rq EXCEPT ![p] = [@ EXCEPT !.pc = pc]]

NewRequest(o, i, b) == [Idle EXCEPT !.op = o, !.pc = "start", !.id = i, !.body = b]

Init ==
  /\ users = EmptyTable
  /\ roles = EmptyTable
  /\ clients = EmptyTable
  /\ companies = EmptyTable
  /\ customers = EmptyTable
  /\ leads = EmptyTable
  /\ tenders = EmptyTable
  /\ documents = EmptyTable
  /\ activities = EmptyTable
  /\ seq = [t \in TableNames |-> 0]
  /\ rq = [p \in Procs |-> Idle]
  /\ sent = 0

\* --------------------------------------------------------- store constraints
\* The store without the UNIQUE index on users.username.
NoUsernameIndex(name, self) == FALSE

\* users.username UNIQUE, seen by a statement that writes `name` to row `self`
\* (self = NULL for an insert).
UsernameTaken(name, self) ==
  \E i \in DOMAIN users : i # self /\ users[i].username = name

\* users.role_id REFERENCES roles(id): a non-null value must name a role.
RoleRefBroken(r) == r # NULL /\ r \notin DOMAIN roles

\* Rows of other tables that reference user i (tenders.created_by,
\* documents.uploaded_by is not represented, activities.user_id,
\* leads.assigned_to).
UserReferenced(i) ==
  \/ \E t \in Rows(tenders) : t.createdBy = i
  \/ \E a \in Rows(activities) : a.userId = i
  \/ \E l \in Rows(leads) : l.assignedTo = i

\* Users whose role_id is r.
UsersOfRole(r) == {i \in DOMAIN users : users[i].roleId = r}

\* The store without the foreign key users.role_id -> roles(id).
NoRoleForeignKey(r) == FALSE

\* roles(id) is referenced by users.role_id: the delete of a referenced role
\* is refused by the store.
RoleReferenced(r) == UsersOfRole(r) # {}

\* ============================================================== USER ROUTES
\* The row serialized as stored.
KeepPassword(u) == u

\* const { password, ...userWithoutPassword } = user
WithoutPassword(u) == [f \in DOMAIN u \ {"password"} |-> u[f]]

\* insertUserSchema: username, password and name are NOT NULL without default.
UserRequired == {"username", "password", "name"}
ValidUser(b) == UserRequired \subseteq DOMAIN b

UserBodies ==
  {[username |-> u, password |-> "pw", name |-> "n", roleId |-> r] :
     u \in Usernames, r \in OptRefs}
  \cup {[password |-> "pw", name |-> "n"]}

UserPatches ==
  {[roleId |-> r] : r \in OptRefs}
  \cup {[password |-> "", name |-> "m"], [password |-> "new"],
        [username |-> "bob"]}

\* storage.getUserByUsername
getUserByUsername(name) == {u \in Rows(users) : u.username = name}

\* GET /api/users/current: storage.getUser(1), the mock current user.
GetCurrentUser(p) ==
  /\ At(p, "getCurrentUser", "start")
  /\ IF 1 \notin DOMAIN users
     THEN Respond(p, 404, {})
     ELSE Respond(p, 200, {WithoutPassword(users[1])})
  /\ UNCHANGED <<tables, seq, sent>>

\* GET /api/users
GetUsers(p) ==
  /\ At(p, "getUsers", "start")
  /\ Respond(p, 200, {WithoutPassword(u) : u \in Rows(users)})
  /\ UNCHANGED <<tables, seq, sent>>

\* POST /api/users: validateBody, then the username pre-check.
PostUser(p) ==
  /\ At(p, "postUser", "start")
  /\ LET b == rq[p].body
     IN IF ~ValidUser(b) THEN Respond(p, 400, {})
        ELSE IF getUserByUsername(b.username) # {} THEN Respond(p, 400, {})
        ELSE Goto(p, "insert")
  /\ UNCHANGED <<tables, seq, sent>>

\* The row storage.createUser inserts for a validated body.
NewUserRow(b, i) ==
  [id |-> i, username |-> b.username, password |-> b.password,
   name |-> b.name, roleId |-> IF "roleId" \in DOMAIN b THEN b.roleId ELSE NULL]

\* POST /api/users: storage.createUser.
PostUserInsert(p) ==
  /\ At(p, "postUser", "insert")
  /\ seq["users"] < MaxId
  /\ LET b == rq[p].body
         row == NewUserRow(b, seq["users"] + 1)
     IN IF UsernameTaken(b.username, NULL) \/ RoleRefBroken(row.roleId)
        THEN /\ Respond(p, 500, {})
             /\ UNCHANGED <<users, seq>>
        ELSE /\ users' = Insert(users, row)
             /\ seq' = [seq EXCEPT !["users"] = @ + 1]
             /\ Respond(p, 201, {WithoutPassword(row)})
  /\ UNCHANGED <<roles, clients, companies, customers, leads, tenders,
                 documents, activities, sent>>

\* The body passed on as received.
KeepBody(b) == b

\* if (!req.body.password) delete req.body.password
StripEmptyPassword(b) ==
  IF "password" \in DOMAIN b /\ b.password = ""
  THEN [f \in DOMAIN b \ {"password"} |-> b[f]]
  ELSE b

\* PATCH /api/users/:id: storage.updateUser with the unvalidated body.
PatchUser(p) ==
  /\ At(p, "patchUser", "start")
  /\ LET i == rq[p].id
         patch == StripEmptyPassword(rq[p].body)
     IN IF IsNaN(i) THEN Respond(p, 400, {}) /\ UNCHANGED users
        ELSE IF i \notin DOMAIN users
        THEN Respond(p, 404, {}) /\ UNCHANGED users
        ELSE LET row == Merge(users[i], patch)
             IN IF UsernameTaken(row.username, i) \/ RoleRefBroken(row.roleId)
                THEN Respond(p, 500, {}) /\ UNCHANGED users
                ELSE /\ users' = [users EXCEPT ![i] = row]
                     /\ Respond(p, 200, {WithoutPassword(row)})
  /\ UNCHANGED <<roles, clients, companies, customers, leads, tenders,
                 documents, activities, seq, sent>>

\* storage.deleteUser: the delete statement, then `return true` whether or
\* not a row was deleted.
deleteUser(i) == TRUE

\* DELETE /api/users/:id
DeleteUser(p) ==
  /\ At(p, "deleteUser", "start")
  /\ LET i == rq[p].id
     IN IF IsNaN(i) THEN Respond(p, 400, {}) /\ UNCHANGED users
        ELSE IF UserReferenced(i) THEN Respond(p, 500, {}) /\ UNCHANGED users
        ELSE /\ users' = Delete(users, i)
             /\ IF deleteUser(i) THEN Respond(p, 204, {}) ELSE Respond(p, 404, {})
  /\ UNCHANGED <<roles, clients, companies, customers, leads, tenders,
                 documents, activities, seq, sent>>

UserRequests ==
  {NewRequest("getCurrentUser", NULL, EmptyTable),
   NewRequest("getUsers", NULL, EmptyTable)}
  \cup {NewRequest("postUser", NULL, b) : b \in UserBodies}
  \cup {NewRequest("patchUser", i, b) : i \in IdParams, b \in UserPatches}
  \cup {NewRequest("deleteUser", i, EmptyTable) : i \in IdParams}

\* ============================================================== ROLE ROUTES
RoleNames == {"admin", "viewer"}
RoleBodies == {[name |-> n] : n \in RoleNames} \cup {EmptyTable}
\* insertRoleSchema: name is NOT NULL without default.
ValidRole(b) == "name" \in DOMAIN b

\* roles.name UNIQUE
RoleNameTaken(name, self) ==
  \E i \in DOMAIN roles : i # self /\ roles[i].name = name

\* POST /api/roles: validateBody, storage.createRole.
PostRole(p) ==
  /\ At(p, "postRole", "start")
  /\ LET b == rq[p].body
     IN IF ~ValidRole(b)
        THEN Respond(p, 400, {}) /\ UNCHANGED <<roles, seq>>
        ELSE IF RoleNameTaken(b.name, NULL)
        THEN Respond(p, 500, {}) /\ UNCHANGED <<roles, seq>>
        ELSE /\ seq["roles"] < MaxId
             /\ LET row == [id |-> seq["roles"] + 1, name |-> b.name]
                IN /\ roles' = Insert(roles, row)
                   /\ Respond(p, 201, {row})
             /\ seq' = [seq EXCEPT !["roles"] = @ + 1]
  /\ UNCHANGED <<users, clients, companies, customers, leads, tenders,
                 documents, activities, sent>>

\* A count that forgets the where clause.
CountAllUsers(r) == Cardinality(DOMAIN users)

\* storage.getUsersCountByRoleId
getUsersCountByRoleId(r) == Cardinality(UsersOfRole(r))

\* DELETE /api/roles/:id: the guard, storage.getUsersCountByRoleId.
DeleteRole(p) ==
  /\ At(p, "deleteRole", "start")
  /\ LET i == rq[p].id
         n == getUsersCountByRoleId(i)
     IN IF IsNaN(i) THEN Respond(p, 400, {})
        ELSE IF n > 0
        THEN rq' = [rq EXCEPT ![p] = [@ EXCEPT !.pc = "done", !.status = 400,
                                               !.usersCount = n]]
        ELSE Goto(p, "delete")
  /\ UNCHANGED <<tables, seq, sent>>

\* storage.deleteRole: the delete statement, then `return true`.
deleteRole(i) == TRUE

\* DELETE /api/roles/:id: storage.deleteRole.
DeleteRoleDelete(p) ==
  /\ At(p, "deleteRole", "delete")
  /\ LET i == rq[p].id
     IN IF RoleReferenced(i) THEN Respond(p, 500, {}) /\ UNCHANGED roles
        ELSE /\ roles' = Delete(roles, i)
             /\ IF deleteRole(i) THEN Respond(p, 204, {}) ELSE Respond(p, 404, {})
  /\ UNCHANGED <<users, clients, companies, customers, leads, tenders,
                 documents, activities, seq, sent>>

RoleRequests ==
  {NewRequest("postRole", NULL, b) : b \in RoleBodies}
  \cup {NewRequest("deleteRole", i, EmptyTable) : i \in IdParams}

\* ------------------------------------------------- users and roles together
UsersArrive(p) == Arrive(p, UserRequests \cup RoleRequests)

UsersNext ==
  \E p \in Procs :
    \/ UsersArrive(p)
    \/ GetCurrentUser(p)
    \/ GetUsers(p)
    \/ PostUser(p)
    \/ PostUserInsert(p)
    \/ PatchUser(p)
    \/ DeleteUser(p)
    \/ PostRole(p)
    \/ DeleteRole(p)
    \/ DeleteRoleDelete(p)

SpecUsers == Init /\ [][UsersNext]_vars

\* ------------------------------------------------------ store failures
\* A rejection that no try block of the handler catches: the handler is left
\* without having answered.  What the client then sees is the framework's
\* affair: no response (status 0) or its own error page (500, not JSON).
Escapes(p) ==
  \E s \in {0, 500} :
    rq' = [rq EXCEPT ![p] = [@ EXCEPT !.pc = "rejected", !.status = s]]

\* GET /api/users/current: storage.getUser(1) rejects (the store cannot be
\* reached); the handler has no try block.
GetCurrentUserFails(p) ==
  /\ At(p, "getCurrentUser", "start")
  /\ Escapes(p)
  /\ UNCHANGED <<tables, seq, sent>>

\* GET /api/users: storage.getUsers rejects; the catch block answers 500.
GetUsersFails(p) ==
  /\ At(p, "getUsers", "start")
  /\ Respond(p, 500, {})
  /\ UNCHANGED <<tables, seq, sent>>

\* POST /api/users: storage.getUserByUsername rejects; the catch block
\* answers 500.  validateBody has answered an invalid body before.
PostUserFails(p) ==
  /\ At(p, "postUser", "start")
  /\ ValidUser(rq[p].body)
  /\ Respond(p, 500, {})
  /\ UNCHANGED <<tables, seq, sent>>

\* POST /api/users: storage.createUser rejects; the catch block answers 500.
PostUserInsertFails(p) ==
  /\ At(p, "postUser", "insert")
  /\ Respond(p, 500, {})
  /\ UNCHANGED <<tables, seq, sent>>

OutageRequests ==
  {NewRequest("getCurrentUser", NULL, EmptyTable),
   NewRequest("getUsers", NULL, EmptyTable)}
  \cup {NewRequest("postUser", NULL, b) : b \in UserBodies}

OutageArrive(p) == Arrive(p, OutageRequests)

\* The user routes with a store that can fail at any gateway call.
OutageNext ==
  \E p \in Procs :
    \/ OutageArrive(p)
    \/ GetCurrentUser(p)
    \/ GetCurrentUserFails(p)
    \/ GetUsers(p)
    \/ GetUsersFails(p)
    \/ PostUser(p)
    \/ PostUserFails(p)
    \/ PostUserInsert(p)
    \/ PostUserInsertFails(p)

SpecOutage == Init /\ [][OutageNext]_vars

\* ========================================================== ACTIVITY ROUTES
\* activities.user_id REFERENCES users(id) NOT NULL,
\* activities.tender_id REFERENCES tenders(id).
ActivityRefBroken(a) ==
  \/ a.userId \notin DOMAIN users
  \/ a.tenderId # NULL /\ a.tenderId \notin DOMAIN tenders

\* The row storage.createActivity inserts at time ts.
NewActivityRow(a, i, ts) ==
  [id |-> i, tenderId |-> a.tenderId, activityType |-> a.activityType,
   description |-> a.description, userId |-> a.userId, timestamp |-> ts]

\* The clock readings an insert into activities can get.
ActivityTimes == Now({a.timestamp : a \in Rows(activities)})

\* The insert of storage.createActivity at time ts, by handler p, which goes
\* on to `pc` with status `s` and response rows `rows`.
InsertActivity(p, a, ts, pc, s, rows) ==
  LET row == NewActivityRow(a, seq["activities"] + 1, ts)
  IN /\ activities' = Insert(activities, row)
     /\ seq' = [seq EXCEPT !["activities"] = @ + 1]
     /\ rq' = [rq EXCEPT ![p] = [@ EXCEPT !.pc = pc, !.status = s,
                                          !.out = rows,
                                          !.log = @ \cup {row}]]

\* await this.createActivity(a) as a statement of handler p: the insert
\* throws (500) on a broken reference; otherwise the handler goes on to
\* `pc` with status `s` and response rows `rows`.
CreateActivity(p, a, pc, s, rows) ==
  IF ActivityRefBroken(a)
  THEN /\ Respond(p, 500, {})
       /\ UNCHANGED <<activities, seq>>
  ELSE \E ts \in ActivityTimes : InsertActivity(p, a, ts, pc, s, rows)

\* insertActivitySchema: activityType, description and userId are NOT NULL
\* without default; tenderId is optional.
ActivityRequired == {"activityType", "description", "userId"}
ValidActivity(b) == ActivityRequired \subseteq DOMAIN b

\* POST /api/activities: validateBody, storage.createActivity.
PostActivity(p) ==
  /\ At(p, "postActivity", "start")
  /\ LET b == rq[p].body
     IN IF ~ValidActivity(b)
        THEN Respond(p, 400, {}) /\ UNCHANGED <<activities, seq>>
        ELSE LET a == [tenderId |-> Field(b, "tenderId", NULL),
                       activityType |-> b.activityType,
                       description |-> b.description, userId |-> b.userId]
             IN IF ActivityRefBroken(a)
                THEN Respond(p, 500, {}) /\ UNCHANGED <<activities, seq>>
                ELSE \E ts \in ActivityTimes :
                     InsertActivity(p, a, ts, "done", 201,
                       {NewActivityRow(a, seq["activities"] + 1, ts)})
  /\ UNCHANGED <<users, roles, clients, companies, customers, leads, tenders,
                 documents, sent>>

\* ============================================================ TENDER ROUTES
TenderRefs == {"T-1", "T-2"}

\* insertTenderSchema: of the columns represented, referenceNumber, title and
\* publishDate are NOT NULL without default.  A date is a day number.
TenderRequired == {"referenceNumber", "title", "publishDate"}
ValidTender(b) == TenderRequired \subseteq DOMAIN b

\* The store without the UNIQUE index on tenders.reference_number.
NoReferenceIndex(ref, self) == FALSE

\* tenders.reference_number UNIQUE
ReferenceTaken(ref, self) ==
  \E i \in DOMAIN tenders : i # self /\ tenders[i].referenceNumber = ref

\* tenders.client_id, company_id, created_by REFERENCES clients, companies,
\* users.
TenderRefBroken(t) ==
  \/ t.clientId # NULL /\ t.clientId \notin DOMAIN clients
  \/ t.companyId # NULL /\ t.companyId \notin DOMAIN companies
  \/ t.createdBy # NULL /\ t.createdBy \notin DOMAIN users

\* A check of activities.tender_id alone.
ReferencedByActivity(i) == \E a \in Rows(activities) : a.tenderId = i
\* tenders(id) is referenced by documents.tender_id and activities.tender_id.
TenderReferenced(i) ==
  \/ \E d \in Rows(documents) : d.tenderId = i
  \/ \E a \in Rows(activities) : a.tenderId = i

\* A pre-check that finds nothing.
FindsNoTender(ref) == {}

\* storage.getTenderByReference
getTenderByReference(ref) == {t \in Rows(tenders) : t.referenceNumber = ref}

\* POST /api/tenders: validateBody, then the reference-number pre-check.
PostTender(p) ==
  /\ At(p, "postTender", "start")
  /\ LET b == rq[p].body
     IN IF ~ValidTender(b) THEN Respond(p, 400, {})
        ELSE IF getTenderByReference(b.referenceNumber) # {}
        THEN Respond(p, 400, {})
        ELSE Goto(p, "insert")
  /\ UNCHANGED <<tables, seq, sent>>

\* The row storage.createTender inserts for a validated body: status
\* defaults to "open", created_at and updated_at to now().
NewTenderRow(b, i, ts) ==
  [id |-> i, referenceNumber |-> b.referenceNumber, title |-> b.title,
   clientId |-> Field(b, "clientId", NULL),
   companyId |-> Field(b, "companyId", NULL),
   publishDate |-> b.publishDate,
   status |-> Field(b, "status", "open"),
   createdBy |-> Field(b, "createdBy", NULL),
   createdAt |-> ts, updatedAt |-> ts]

\* The clock readings a statement on tenders can see.
TenderTimes ==
  Now({t.createdAt : t \in Rows(tenders)} \cup
      {t.updatedAt : t \in Rows(tenders)})

\* storage.createTender: the insert.
PostTenderInsert(p) ==
  /\ At(p, "postTender", "insert")
  /\ seq["tenders"] < MaxId
  /\ \E ts \in TenderTimes :
       LET row == NewTenderRow(rq[p].body, seq["tenders"] + 1, ts)
       IN IF ReferenceTaken(row.referenceNumber, NULL) \/ TenderRefBroken(row)
          THEN /\ Respond(p, 500, {})
               /\ UNCHANGED <<tenders, seq>>
          ELSE /\ tenders' = Insert(tenders, row)
               /\ seq' = [seq EXCEPT !["tenders"] = @ + 1]
               /\ Hold(p, row, "activity")
  /\ UNCHANGED <<users, roles, clients, companies, customers, leads,
                 documents, activities, sent>>

\* storage.createTender: the activity log, then 201 with the new row.
PostTenderActivity(p) ==
  /\ At(p, "postTender", "activity")
  /\ LET t == rq[p].tmp
     IN CreateActivity(p,
          [tenderId |-> t.id, activityType |-> "create",
           description |-> <<"New tender added: ", t.title>>,
           userId |-> OrDefault(t.createdBy, 1)],
          "done", 201, {t})
  /\ UNCHANGED <<users, roles, clients, companies, customers, leads, tenders,
                 documents, sent>>

\* NewTenderProcess mutationFn, after POST /api/tenders succeeded: with a
\* current user loaded the page posts its own activity.  The id it sends is
\* response.id, which is the new tender's id when apiRequest yields the parsed
\* body and undefined when it yields the raw response.
NewTenderProcessLog(p) ==
  /\ rq[p].op = "postTender" /\ rq[p].pc = "done" /\ rq[p].status = 201
  /\ rq[p].client = "NewTenderProcess" /\ rq[p].currentUser # NULL
  /\ sent < MaxRequests
  /\ sent' = sent + 1
  /\ \E tid \in {rq[p].tmp.id, NULL} :
       rq' = [rq EXCEPT ![p] =
                [@ EXCEPT !.op = "postActivity", !.pc = "start", !.status = 0,
                          !.out = {},
                          !.body = [activityType |-> "create",
                                    description |->
                                      <<"Created new tender: ", rq[p].body.title>>,
                                    userId |-> rq[p].currentUser,
                                    tenderId |-> tid]]]
  /\ UNCHANGED <<tables, seq>>

\* PUT /api/tenders/:id: the reference-number check against other tenders,
\* made `if (req.body.referenceNumber)`, which an empty string fails.
PutTender(p) ==
  /\ At(p, "putTender", "start")
  /\ LET i == rq[p].id
         b == rq[p].body
     IN IF IsNaN(i) THEN Respond(p, 400, {})
        ELSE IF /\ "referenceNumber" \in DOMAIN b
                /\ b.referenceNumber # ""
                /\ \E t \in getTenderByReference(b.referenceNumber) : t.id # i
        THEN Respond(p, 400, {})
        ELSE Goto(p, "update")
  /\ UNCHANGED <<tables, seq, sent>>

\* storage.updateTender: the update ... returning.
PutTenderUpdate(p) ==
  /\ At(p, "putTender", "update")
  /\ LET i == rq[p].id
     IN IF i \notin DOMAIN tenders
        THEN Respond(p, 404, {}) /\ UNCHANGED tenders
        ELSE \E ts \in TenderTimes :
               LET row == [Merge(tenders[i], rq[p].body) EXCEPT !.updatedAt = ts]
               IN IF \/ ReferenceTaken(row.referenceNumber, i)
                     \/ TenderRefBroken(row)
                  THEN Respond(p, 500, {}) /\ UNCHANGED tenders
                  ELSE /\ tenders' = [tenders EXCEPT ![i] = row]
                       /\ Hold(p, row, "activity")
  /\ UNCHANGED <<users, roles, clients, companies, customers, leads,
                 documents, activities, seq, sent>>

\* storage.updateTender: the activity log, then 200 with the updated row.
PutTenderActivity(p) ==
  /\ At(p, "putTender", "activity")
  /\ LET t == rq[p].tmp
     IN CreateActivity(p,
          [tenderId |-> t.id, activityType |-> "update",
           description |-> <<"Tender updated: ", t.title>>,
           userId |-> OrDefault(Field(rq[p].body, "createdBy", NULL), 1)],
          "done", 200, {t})
  /\ UNCHANGED <<users, roles, clients, companies, customers, leads, tenders,
                 documents, sent>>

\* DELETE /api/tenders/:id, storage.deleteTender: the select before deleting.
DeleteTender(p) ==
  /\ At(p, "deleteTender", "start")
  /\ LET i == rq[p].id
     IN IF IsNaN(i) THEN Respond(p, 400, {})
        ELSE IF i \notin DOMAIN tenders THEN Respond(p, 404, {})
        ELSE Hold(p, tenders[i], "deleteDocuments")
  /\ UNCHANGED <<tables, seq, sent>>

\* storage.deleteTender: delete the tender's documents.
DeleteTenderDocuments(p) ==
  /\ At(p, "deleteTender", "deleteDocuments")
  /\ documents' = [j \in {k \in DOMAIN documents :
                            documents[k].tenderId # rq[p].id} |-> documents[j]]
  /\ rq' = [rq EXCEPT ![p] =
              [@ EXCEPT !.pc = "deleteTender",
                        !.removed = {d \in Rows(documents) :
                                       d.tenderId = rq[p].id}]]
  /\ UNCHANGED <<users, roles, clients, companies, customers, leads, tenders,
                 activities, seq, sent>>

\* storage.deleteTender: delete the tender row.
DeleteTenderRow(p) ==
  /\ At(p, "deleteTender", "deleteTender")
  /\ IF TenderReferenced(rq[p].id)
     THEN Respond(p, 500, {}) /\ UNCHANGED tenders
     ELSE tenders' = Delete(tenders, rq[p].id) /\ Goto(p, "activity")
  /\ UNCHANGED <<users, roles, clients, companies, customers, leads,
                 documents, activities, seq, sent>>

\* storage.deleteTender: the activity log, then `return true` (204).
DeleteTenderActivity(p) ==
  /\ At(p, "deleteTender", "activity")
  /\ LET t == rq[p].tmp
     IN CreateActivity(p,
          [tenderId |-> NULL, activityType |-> "delete",
           description |->
             <<"Tender deleted: ", t.title, " (", t.referenceNumber, ")">>,
           userId |-> OrDefault(t.createdBy, 1)],
          "done", 204, {})
  /\ UNCHANGED <<users, roles, clients, companies, customers, leads, tenders,
                 documents, sent>>

\* ========================================================== DOCUMENT ROUTES
\* insertDocumentSchema: of the columns represented, tenderId is NOT NULL.
ValidDocument(b) == "tenderId" \in DOMAIN b

\* storage.getDocumentsByTenderId
getDocumentsByTenderId(i) == {d \in Rows(documents) : d.tenderId = i}

\* GET /api/tenders/:tenderId/documents
GetDocuments(p) ==
  /\ At(p, "getDocuments", "start")
  /\ IF IsNaN(rq[p].id) THEN Respond(p, 400, {})
     ELSE Respond(p, 200, getDocumentsByTenderId(rq[p].id))
  /\ UNCHANGED <<tables, seq, sent>>

\* POST /api/documents: validateBody, storage.createDocument.
PostDocument(p) ==
  /\ At(p, "postDocument", "start")
  /\ LET b == rq[p].body
     IN IF ~ValidDocument(b)
        THEN Respond(p, 400, {}) /\ UNCHANGED <<documents, seq>>
        ELSE IF b.tenderId \notin DOMAIN tenders
        THEN Respond(p, 500, {}) /\ UNCHANGED <<documents, seq>>
        ELSE /\ seq["documents"] < MaxId
             /\ LET row == [id |-> seq["documents"] + 1, tenderId |-> b.tenderId]
                IN /\ documents' = Insert(documents, row)
                   /\ Respond(p, 201, {row})
             /\ seq' = [seq EXCEPT !["documents"] = @ + 1]
  /\ UNCHANGED <<users, roles, clients, companies, customers, leads, tenders,
                 activities, sent>>

\* storage.deleteDocument: the delete statement, then `return true`.
deleteDocument(i) == TRUE

\* DELETE /api/documents/:id
DeleteDocument(p) ==
  /\ At(p, "deleteDocument", "start")
  /\ LET i == rq[p].id
     IN IF IsNaN(i) THEN Respond(p, 400, {}) /\ UNCHANGED documents
        ELSE /\ documents' = Delete(documents, i)
             /\ IF deleteDocument(i) THEN Respond(p, 204, {})
                ELSE Respond(p, 404, {})
  /\ UNCHANGED <<users, roles, clients, companies, customers, leads, tenders,
                 activities, seq, sent>>

\* GET /api/tenders/:id: storage.getTender.
GetTender(p) ==
  /\ At(p, "getTender", "start")
  /\ LET i == rq[p].id
     IN IF IsNaN(i) THEN Respond(p, 400, {})
        ELSE IF i \notin DOMAIN tenders THEN Respond(p, 404, {})
        ELSE Hold(p, tenders[i], "documents")
  /\ UNCHANGED <<tables, seq, sent>>

\* GET /api/tenders/:id: storage.getDocumentsByTenderId, then
\* res.json({...tender, documents}).
GetTenderDocuments(p) ==
  /\ At(p, "getTender", "documents")
  /\ LET t == rq[p].tmp
     IN Respond(p, 200,
          {[f \in DOMAIN t \cup {"documents"} |->
              IF f = "documents" THEN getDocumentsByTenderId(rq[p].id)
              ELSE t[f]]})
  /\ UNCHANGED <<tables, seq, sent>>

\* ------------------------------------- tenders, documents and activity log
\* The requests of the tender pages.  NewTenderProcess holds a current user
\* once /api/users/current has found user 1; without one it behaves as
\* AddTenderModal does.
TenderBodies ==
  {[referenceNumber |-> r, title |-> "bridge", publishDate |-> 1,
    createdBy |-> c] : r \in TenderRefs, c \in {NULL, 1}}
  \cup {[referenceNumber |-> "", title |-> "bridge", publishDate |-> 1,
         createdBy |-> NULL]}
  \cup {[referenceNumber |-> "T-1"]}
TenderPatches ==
  {[referenceNumber |-> r] : r \in TenderRefs \cup {""}}
  \cup {[title |-> "road"]}
DocumentBodies == {[tenderId |-> t] : t \in Ids} \cup {EmptyTable}

TenderRequests ==
  {[NewRequest("postTender", NULL, b) EXCEPT !.client = "AddTenderModal"] :
     b \in TenderBodies}
  \cup {[NewRequest("postTender", NULL, b) EXCEPT
           !.client = "NewTenderProcess", !.currentUser = u] :
          b \in TenderBodies, u \in DOMAIN users \cap {1}}
  \cup {NewRequest("putTender", i, b) : i \in IdParams, b \in TenderPatches}
  \cup {NewRequest("deleteTender", i, EmptyTable) : i \in IdParams}
  \cup {NewRequest("getDocuments", i, EmptyTable) : i \in IdParams}
  \cup {NewRequest("getTender", i, EmptyTable) : i \in IdParams}
  \cup {NewRequest("postDocument", NULL, b) : b \in DocumentBodies}
  \cup {NewRequest("deleteDocument", i, EmptyTable) : i \in IdParams}
  \cup {NewRequest("postUser", NULL,
                   [username |-> "alice", password |-> "pw", name |-> "n"])}

TendersArrive(p) == Arrive(p, TenderRequests)

TendersNext ==
  \E p \in Procs :
    \/ TendersArrive(p)
    \/ PostUser(p)
    \/ PostUserInsert(p)
    \/ PostTender(p)
    \/ PostTenderInsert(p)
    \/ PostTenderActivity(p)
    \/ NewTenderProcessLog(p)
    \/ PostActivity(p)
    \/ PutTender(p)
    \/ PutTenderUpdate(p)
    \/ PutTenderActivity(p)
    \/ DeleteTender(p)
    \/ DeleteTenderDocuments(p)
    \/ DeleteTenderRow(p)
    \/ DeleteTenderActivity(p)
    \/ GetDocuments(p)
    \/ PostDocument(p)
    \/ DeleteDocument(p)
    \/ GetTender(p)
    \/ GetTenderDocuments(p)

SpecTenders == Init /\ [][TendersNext]_vars

\* =========================================================== COMPANY ROUTES
\* insertCompanySchema: name is NOT NULL without default.
ValidCompany(b) == "name" \in DOMAIN b

\* companies(id) is referenced by tenders.company_id and leads.company_id.
CompanyReferenced(i) ==
  \/ \E t \in Rows(tenders) : t.companyId = i
  \/ \E l \in Rows(leads) : l.companyId = i

\* POST /api/companies: validateBody, storage.createCompany.
PostCompany(p) ==
  /\ At(p, "postCompany", "start")
  /\ LET b == rq[p].body
     IN IF ~ValidCompany(b)
        THEN Respond(p, 400, {}) /\ UNCHANGED <<companies, seq>>
        ELSE /\ seq["companies"] < MaxId
             /\ LET row == [id |-> seq["companies"] + 1, name |-> b.name]
                IN /\ companies' = Insert(companies, row)
                   /\ rq' = [rq EXCEPT ![p] =
                               [@ EXCEPT !.pc = "done", !.status = 201,
                                         !.out = {row}, !.tmp = row]]
             /\ seq' = [seq EXCEPT !["companies"] = @ + 1]
  /\ UNCHANGED <<users, roles, clients, customers, leads, tenders, documents,
                 activities, sent>>

\* AddCompanyModal mutationFn, after POST /api/companies succeeded: with a
\* current user loaded, ActivityLogger.logCreation posts the activity.
AddCompanyModalLog(p) ==
  /\ rq[p].op = "postCompany" /\ rq[p].pc = "done" /\ rq[p].status = 201
  /\ rq[p].client = "AddCompanyModal" /\ rq[p].currentUser # NULL
  /\ sent < MaxRequests
  /\ sent' = sent + 1
  /\ rq' = [rq EXCEPT ![p] =
              [@ EXCEPT !.op = "postActivity", !.pc = "start", !.status = 0,
                        !.out = {},
                        !.body = [activityType |-> "create",
                                  description |->
                                    <<"Created new company: ", rq[p].body.name>>,
                                  userId |-> rq[p].currentUser]]]
  /\ UNCHANGED <<tables, seq>>

\* PUT /api/companies/:id: storage.updateCompany.
PutCompany(p) ==
  /\ At(p, "putCompany", "start")
  /\ LET i == rq[p].id
     IN IF IsNaN(i) THEN Respond(p, 400, {}) /\ UNCHANGED companies
        ELSE IF i \notin DOMAIN companies
        THEN Respond(p, 404, {}) /\ UNCHANGED companies
        ELSE LET row == Merge(companies[i], rq[p].body)
             IN /\ companies' = [companies EXCEPT ![i] = row]
                /\ rq' = [rq EXCEPT ![p] =
                            [@ EXCEPT !.pc = "done", !.status = 200,
                                      !.out = {row}, !.tmp = row]]
  /\ UNCHANGED <<users, roles, clients, customers, leads, tenders, documents,
                 activities, seq, sent>>

\* storage.deleteCompany: the delete statement, then `return true`.
deleteCompany(i) == TRUE

\* DELETE /api/companies/:id
DeleteCompany(p) ==
  /\ At(p, "deleteCompany", "start")
  /\ LET i == rq[p].id
     IN IF IsNaN(i) THEN Respond(p, 400, {}) /\ UNCHANGED companies
        ELSE IF CompanyReferenced(i)
        THEN Respond(p, 500, {}) /\ UNCHANGED companies
        ELSE /\ companies' = Delete(companies, i)
             /\ rq' = [rq EXCEPT ![p] =
                         [@ EXCEPT !.pc = "done",
                                   !.status = IF deleteCompany(i) THEN 204 ELSE 404,
                                   !.tmp = IF i \in DOMAIN companies
                                           THEN companies[i] ELSE EmptyTable]]
  /\ UNCHANGED <<users, roles, clients, customers, leads, tenders, documents,
                 activities, seq, sent>>

\* ============================================================ CLIENT ROUTES
\* insertClientSchema: name is NOT NULL without default.
ValidClient(b) == "name" \in DOMAIN b

\* clients.name UNIQUE
ClientNameTaken(name, self) ==
  \E i \in DOMAIN clients : i # self /\ clients[i].name = name

\* clients(id) is referenced by tenders.client_id.
ClientReferenced(i) == \E t \in Rows(tenders) : t.clientId = i

\* POST /api/clients: validateBody, storage.createClient.
PostClient(p) ==
  /\ At(p, "postClient", "start")
  /\ LET b == rq[p].body
     IN IF ~ValidClient(b)
        THEN Respond(p, 400, {}) /\ UNCHANGED <<clients, seq>>
        ELSE IF ClientNameTaken(b.name, NULL)
        THEN Respond(p, 500, {}) /\ UNCHANGED <<clients, seq>>
        ELSE /\ seq["clients"] < MaxId
             /\ LET row == [id |-> seq["clients"] + 1, name |-> b.name]
                IN /\ clients' = Insert(clients, row)
                   /\ Respond(p, 201, {row})
             /\ seq' = [seq EXCEPT !["clients"] = @ + 1]
  /\ UNCHANGED <<users, roles, companies, customers, leads, tenders,
                 documents, activities, sent>>

\* storage.deleteClient: the delete statement, then `return true`.
deleteClient(i) == TRUE

\* DELETE /api/clients/:id
DeleteClient(p) ==
  /\ At(p, "deleteClient", "start")
  /\ LET i == rq[p].id
     IN IF IsNaN(i) THEN Respond(p, 400, {}) /\ UNCHANGED clients
        ELSE IF ClientReferenced(i)
        THEN Respond(p, 500, {}) /\ UNCHANGED clients
        ELSE /\ clients' = Delete(clients, i)
             /\ IF deleteClient(i) THEN Respond(p, 204, {})
                ELSE Respond(p, 404, {})
  /\ UNCHANGED <<users, roles, companies, customers, leads, tenders,
                 documents, activities, seq, sent>>

\* ========================================================== CUSTOMER ROUTES
\* insertCustomerSchema: name is NOT NULL without default.
ValidCustomer(b) == "name" \in DOMAIN b

\* POST /api/customers: validateBody, storage.createCustomer: the insert.
PostCustomer(p) ==
  /\ At(p, "postCustomer", "start")
  /\ LET b == rq[p].body
     IN IF ~ValidCustomer(b)
        THEN Respond(p, 400, {}) /\ UNCHANGED <<customers, seq>>
        ELSE /\ seq["customers"] < MaxId
             /\ LET row == [id |-> seq["customers"] + 1, name |-> b.name]
                IN /\ customers' = Insert(customers, row)
                   /\ Hold(p, row, "activity")
             /\ seq' = [seq EXCEPT !["customers"] = @ + 1]
  /\ UNCHANGED <<users, roles, clients, companies, leads, tenders, documents,
                 activities, sent>>

\* storage.createCustomer: the activity log, then 201 with the new row.
PostCustomerActivity(p) ==
  /\ At(p, "postCustomer", "activity")
  /\ LET c == rq[p].tmp
     IN CreateActivity(p,
          [tenderId |-> NULL, activityType |-> "create",
           description |-> <<"New customer added: ", c.name>>, userId |-> 1],
          "done", 201, {c})
  /\ UNCHANGED <<users, roles, clients, companies, customers, leads, tenders,
                 documents, sent>>

\* PUT /api/customers/:id, storage.updateCustomer: the update ... returning.
PutCustomer(p) ==
  /\ At(p, "putCustomer", "start")
  /\ LET i == rq[p].id
     IN IF IsNaN(i) THEN Respond(p, 400, {}) /\ UNCHANGED customers
        ELSE IF i \notin DOMAIN customers
        THEN Respond(p, 404, {}) /\ UNCHANGED customers
        ELSE LET row == Merge(customers[i], rq[p].body)
             IN /\ customers' = [customers EXCEPT ![i] = row]
                /\ Hold(p, row, "activity")
  /\ UNCHANGED <<users, roles, clients, companies, leads, tenders, documents,
                 activities, seq, sent>>

\* storage.updateCustomer: the activity log, then 200 with the updated row.
PutCustomerActivity(p) ==
  /\ At(p, "putCustomer", "activity")
  /\ LET c == rq[p].tmp
     IN CreateActivity(p,
          [tenderId |-> NULL, activityType |-> "update",
           description |-> <<"Customer updated: ", c.name>>, userId |-> 1],
          "done", 200, {c})
  /\ UNCHANGED <<users, roles, clients, companies, customers, leads, tenders,
                 documents, sent>>

\* DELETE /api/customers/:id, storage.deleteCustomer: the select.
DeleteCustomer(p) ==
  /\ At(p, "deleteCustomer", "start")
  /\ LET i == rq[p].id
     IN IF IsNaN(i) THEN Respond(p, 400, {})
        ELSE IF i \notin DOMAIN customers THEN Respond(p, 404, {})
        ELSE Hold(p, customers[i], "delete")
  /\ UNCHANGED <<tables, seq, sent>>

\* storage.deleteCustomer: the delete.
DeleteCustomerRow(p) ==
  /\ At(p, "deleteCustomer", "delete")
  /\ customers' = Delete(customers, rq[p].id)
  /\ Goto(p, "activity")
  /\ UNCHANGED <<users, roles, clients, companies, leads, tenders, documents,
                 activities, seq, sent>>

\* storage.deleteCustomer: the activity log, then `return true` (204).
DeleteCustomerActivity(p) ==
  /\ At(p, "deleteCustomer", "activity")
  /\ CreateActivity(p,
       [tenderId |-> NULL, activityType |-> "delete",
        description |-> <<"Customer deleted: ", rq[p].tmp.name>>, userId |-> 1],
       "done", 204, {})
  /\ UNCHANGED <<users, roles, clients, companies, customers, leads, tenders,
                 documents, sent>>

\* ============================================================== LEAD ROUTES
\* A schema that asks for the required keys only.
LeadKeysPresent(b) == {"title", "companyId"} \subseteq DOMAIN b

\* insertLeadSchema: of the fields represented, title is a string of at least
\* one character and companyId a number >= 1; assignedTo is optional.
ValidLead(b) ==
  /\ {"title", "companyId"} \subseteq DOMAIN b
  /\ b.title # ""
  /\ b.companyId >= 1

\* leads.company_id REFERENCES companies(id) NOT NULL,
\* leads.assigned_to REFERENCES users(id).
LeadRefBroken(l) ==
  \/ l.companyId \notin DOMAIN companies
  \/ l.assignedTo # NULL /\ l.assignedTo \notin DOMAIN users

\* insertLeadSchema: status: z.string().default("New"); storage.createLead:
\* status: lead.status || "New".
LeadStatus(b) ==
  LET parsed == Field(b, "status", "New")
  IN IF parsed = "" THEN "New" ELSE parsed

\* storage.getLead: the lead left-joined with its company's name.
getLead(i) ==
  {[id |-> l.id, title |-> l.title, companyId |-> l.companyId,
    status |-> l.status, assignedTo |-> l.assignedTo,
    companyName |-> IF l.companyId \in DOMAIN companies
                    THEN companies[l.companyId].name ELSE ""] :
     l \in {m \in Rows(leads) : m.id = i}}

\* POST /api/leads: validateBody, storage.createLead: the insert.
PostLead(p) ==
  /\ At(p, "postLead", "start")
  /\ LET b == rq[p].body
     IN IF ~ValidLead(b)
        THEN Respond(p, 400, {}) /\ UNCHANGED <<leads, seq>>
        ELSE /\ seq["leads"] < MaxId
             /\ LET row == [id |-> seq["leads"] + 1, title |-> b.title,
                            companyId |-> b.companyId,
                            status |-> LeadStatus(b),
                            assignedTo |-> Field(b, "assignedTo", NULL)]
                IN IF LeadRefBroken(row)
                   THEN Respond(p, 500, {}) /\ UNCHANGED <<leads, seq>>
                   ELSE /\ leads' = Insert(leads, row)
                        /\ seq' = [seq EXCEPT !["leads"] = @ + 1]
                        /\ Hold(p, row, "activity")
  /\ UNCHANGED <<users, roles, clients, companies, customers, tenders,
                 documents, activities, sent>>

\* storage.createLead: the activity log.
PostLeadActivity(p) ==
  /\ At(p, "postLead", "activity")
  /\ LET l == rq[p].tmp
     IN CreateActivity(p,
          [tenderId |-> NULL, activityType |-> "CREATE_LEAD",
           description |-> <<"New lead created: ", l.title>>,
           userId |-> OrDefault(l.assignedTo, 1)],
          "fetch", 0, {})
  /\ UNCHANGED <<users, roles, clients, companies, customers, leads, tenders,
                 documents, sent>>

\* storage.createLead: this.getLead(newLead.id); no row throws (500).
PostLeadFetch(p) ==
  /\ At(p, "postLead", "fetch")
  /\ IF getLead(rq[p].tmp.id) = {}
     THEN Respond(p, 500, {})
     ELSE Respond(p, 201, getLead(rq[p].tmp.id))
  /\ UNCHANGED <<tables, seq, sent>>

\* PATCH /api/leads/:id, storage.updateLead: the update ... returning.
PatchLead(p) ==
  /\ At(p, "patchLead", "start")
  /\ LET i == rq[p].id
     IN IF IsNaN(i) THEN Respond(p, 400, {}) /\ UNCHANGED leads
        ELSE IF i \notin DOMAIN leads
        THEN Respond(p, 404, {}) /\ UNCHANGED leads
        ELSE LET row == Merge(leads[i], rq[p].body)
             IN IF LeadRefBroken(row)
                THEN Respond(p, 500, {}) /\ UNCHANGED leads
                ELSE /\ leads' = [leads EXCEPT ![i] = row]
                     /\ Hold(p, row, "activity")
  /\ UNCHANGED <<users, roles, clients, companies, customers, tenders,
                 documents, activities, seq, sent>>

\* storage.updateLead: the activity log, under the user the payload assigns.
PatchLeadActivity(p) ==
  /\ At(p, "patchLead", "activity")
  /\ CreateActivity(p,
       [tenderId |-> NULL, activityType |-> "UPDATE_LEAD",
        description |-> <<"Lead updated: ", rq[p].tmp.title>>,
        userId |-> OrDefault(Field(rq[p].body, "assignedTo", NULL), 1)],
       "fetch", 0, {})
  /\ UNCHANGED <<users, roles, clients, companies, customers, leads, tenders,
                 documents, sent>>

\* storage.updateLead: return await this.getLead(id); no row is a 404.
PatchLeadFetch(p) ==
  /\ At(p, "patchLead", "fetch")
  /\ IF getLead(rq[p].id) = {}
     THEN Respond(p, 404, {})
     ELSE Respond(p, 200, getLead(rq[p].id))
  /\ UNCHANGED <<tables, seq, sent>>

\* GET /api/leads/:id
GetLead(p) ==
  /\ At(p, "getLead", "start")
  /\ LET i == rq[p].id
     IN IF IsNaN(i) THEN Respond(p, 400, {})
        ELSE IF getLead(i) = {} THEN Respond(p, 404, {})
        ELSE Respond(p, 200, getLead(i))
  /\ UNCHANGED <<tables, seq, sent>>

\* DELETE /api/leads/:id, storage.deleteLead: the select.
DeleteLead(p) ==
  /\ At(p, "deleteLead", "start")
  /\ LET i == rq[p].id
     IN IF IsNaN(i) THEN Respond(p, 400, {})
        ELSE IF i \notin DOMAIN leads THEN Respond(p, 404, {})
        ELSE Hold(p, leads[i], "delete")
  /\ UNCHANGED <<tables, seq, sent>>

\* storage.deleteLead: the delete.
DeleteLeadRow(p) ==
  /\ At(p, "deleteLead", "delete")
  /\ leads' = Delete(leads, rq[p].id)
  /\ Goto(p, "activity")
  /\ UNCHANGED <<users, roles, clients, companies, customers, tenders,
                 documents, activities, seq, sent>>

\* storage.deleteLead: the activity log, then `return true` (204).
DeleteLeadActivity(p) ==
  /\ At(p, "deleteLead", "activity")
  /\ LET l == rq[p].tmp
     IN CreateActivity(p,
          [tenderId |-> NULL, activityType |-> "DELETE_LEAD",
           description |-> <<"Lead deleted: ", l.title>>,
           userId |-> OrDefault(l.assignedTo, 1)],
          "done", 204, {})
  /\ UNCHANGED <<users, roles, clients, companies, customers, leads, tenders,
                 documents, sent>>

\* ------------------------------------ companies, customers, leads, clients
CompanyBodies == {[name |-> "acme"], EmptyTable}
CompanyPatches == {[name |-> "zenith"]}
ClientBodies == {[name |-> "ministry"], EmptyTable}
CustomerBodies == {[name |-> "carol"], EmptyTable}
CustomerPatches == {[name |-> "dave"]}
LeadBodies ==
  {[title |-> "survey", companyId |-> c, assignedTo |-> a] :
     c \in Ids, a \in {NULL, 1}}
  \cup {[title |-> "survey", companyId |-> 1, status |-> st] :
          st \in {"Won", ""}}
  \cup {[title |-> "survey"], [title |-> "", companyId |-> 1]}
LeadPatches == {[title |-> "audit"], [assignedTo |-> 1]}

\* ActivityLogger.logActivity called on its own: POST /api/activities.
ActivityBodies ==
  {[activityType |-> "view", description |-> <<"Viewed dashboard">>,
    userId |-> 1],
   [activityType |-> "view", description |-> <<"Viewed dashboard">>]}

\* The requests of the company, client, customer and lead pages.
\* AddCompanyModal holds a current user once /api/users/current has found
\* user 1.
CrmRequests ==
  {[NewRequest("postCompany", NULL, b) EXCEPT
      !.client = "AddCompanyModal", !.currentUser = u] :
     b \in CompanyBodies, u \in {NULL} \cup (DOMAIN users \cap {1})}
  \cup {NewRequest("putCompany", i, b) : i \in IdParams, b \in CompanyPatches}
  \cup {NewRequest("deleteCompany", i, EmptyTable) : i \in IdParams}
  \cup {NewRequest("postClient", NULL, b) : b \in ClientBodies}
  \cup {NewRequest("deleteClient", i, EmptyTable) : i \in IdParams}
  \cup {NewRequest("postCustomer", NULL, b) : b \in CustomerBodies}
  \cup {NewRequest("putCustomer", i, b) : i \in IdParams, b \in CustomerPatches}
  \cup {NewRequest("deleteCustomer", i, EmptyTable) : i \in IdParams}
  \cup {NewRequest("postLead", NULL, b) : b \in LeadBodies}
  \cup {NewRequest("patchLead", i, b) : i \in IdParams, b \in LeadPatches}
  \cup {NewRequest("deleteLead", i, EmptyTable) : i \in IdParams}
  \cup {NewRequest("getLead", i, EmptyTable) : i \in IdParams}
  \cup {NewRequest("postUser", NULL,
                   [username |-> "alice", password |-> "pw", name |-> "n"])}
  \cup {NewRequest("postActivity", NULL, b) : b \in ActivityBodies}

CrmArrive(p) == Arrive(p, CrmRequests)

CrmNext ==
  \E p \in Procs :
    \/ CrmArrive(p)
    \/ PostUser(p)
    \/ PostUserInsert(p)
    \/ PostActivity(p)
    \/ PostCompany(p)
    \/ AddCompanyModalLog(p)
    \/ PutCompany(p)
    \/ DeleteCompany(p)
    \/ PostClient(p)
    \/ DeleteClient(p)
    \/ PostCustomer(p)
    \/ PostCustomerActivity(p)
    \/ PutCustomer(p)
    \/ PutCustomerActivity(p)
    \/ DeleteCustomer(p)
    \/ DeleteCustomerRow(p)
    \/ DeleteCustomerActivity(p)
    \/ PostLead(p)
    \/ PostLeadActivity(p)
    \/ PostLeadFetch(p)
    \/ PatchLead(p)
    \/ PatchLeadActivity(p)
    \/ PatchLeadFetch(p)
    \/ DeleteLead(p)
    \/ DeleteLeadRow(p)
    \/ DeleteLeadActivity(p)
    \/ GetLead(p)

SpecCrm == Init /\ [][CrmNext]_vars

\* ============================================================ ACTIVITY FEED
\* const limit = req.query.limit ? parseInt(req.query.limit) : 5
DefaultLimit == 5

\* leftJoin(users, eq(activities.userId, users.id)): each row with userName.
WithUserName(a) ==
  [f \in DOMAIN a \cup {"userName"} |->
     IF f = "userName"
     THEN IF a.userId \in DOMAIN users THEN users[a.userId].name ELSE ""
     ELSE a[f]]

\* storage.getRecentActivities(limit) for a limit >= 0.
getRecentActivities(limit) ==
  {Take(l, limit) :
     l \in NewestFirst({WithUserName(a) : a \in Rows(activities)}, "timestamp")}

\* GET /api/activities/recent.  The query is in `body`; its limit is absent,
\* a number, or text parseInt turns into NaN.  A limit that is NaN or
\* negative is handed to the query builder as it is: depending on the
\* builder's version the statement fails (500) or runs without a LIMIT.
GetRecentActivities(p) ==
  /\ At(p, "getRecentActivities", "start")
  /\ LET limit == Field(rq[p].body, "limit", DefaultLimit)
     IN IF IsNaN(limit) \/ limit < 0
        THEN \/ Respond(p, 500, {})
             \/ \E l \in getRecentActivities(Cardinality(DOMAIN activities)) :
                  RespondList(p, 200, l)
        ELSE \E l \in getRecentActivities(limit) : RespondList(p, 200, l)
  /\ UNCHANGED <<tables, seq, sent>>

\* Clock readings of k activity rows in insertion order: never decreasing,
\* the same reading for at most two rows in a row.
FeedTimes(k) ==
  {t \in [1..k -> 1..k] :
     /\ k >= 1 => t[1] = 1
     /\ \A i \in 1..(k - 1) : t[i + 1] \in {t[i], t[i] + 1}
     /\ \A i \in 1..(k - 2) : t[i + 2] # t[i]}

\* A store after two users were created and up to MaxActivities activities
\* were posted on their behalf.
InitFeed ==
  /\ users = [i \in 1..2 |->
                [id |-> i, username |-> IF i = 1 THEN "alice" ELSE "bob",
                 password |-> "pw", name |-> IF i = 1 THEN "n" ELSE "m",
                 roleId |-> NULL]]
  /\ \E k \in 0..MaxActivities : \E t \in FeedTimes(k) :
       /\ activities =
            [i \in 1..k |->
               NewActivityRow([tenderId |-> NULL, activityType |-> "view",
                               description |-> <<"Viewed dashboard">>,
                               userId |-> 1 + (i % 2)], i, t[i])]
       /\ seq = [n \in TableNames |->
                   IF n = "activities" THEN k ELSE IF n = "users" THEN 2 ELSE 0]
  /\ roles = EmptyTable
  /\ clients = EmptyTable
  /\ companies = EmptyTable
  /\ customers = EmptyTable
  /\ leads = EmptyTable
  /\ tenders = EmptyTable
  /\ documents = EmptyTable
  /\ rq = [p \in Procs |-> Idle]
  /\ sent = 0

FeedQueries ==
  {EmptyTable} \cup {[limit |-> v] : v \in (0..MaxLimit) \cup {NaN}}

FeedRequests ==
  {NewRequest("getRecentActivities", NULL, q) : q \in FeedQueries}
  \cup {NewRequest("postActivity", NULL, b) :
          b \in {a \in ActivityBodies : ValidActivity(a)}}

FeedArrive(p) == Arrive(p, FeedRequests)

FeedNext ==
  \E p \in Procs :
    \/ FeedArrive(p)
    \/ GetRecentActivities(p)
    \/ PostActivity(p)

SpecFeed == InitFeed /\ [][FeedNext]_vars

\* =========================================================== TENDER LISTING
MaxListed == 3
MaxPage == 3
MaxPageSize == 2
DefaultPage == 1
DefaultPageSize == 10

\* The characters of the texts that occur in titles, reference numbers and
\* search terms.
Chars(s) ==
  CASE s = "bridge" -> <<"b", "r", "i", "d", "g", "e">>
    [] s = "road" -> <<"r", "o", "a", "d">>
    [] s = "T-1" -> <<"T", "-", "1">>
    [] s = "T-2" -> <<"T", "-", "2">>
    [] s = "T-3" -> <<"T", "-", "3">>
    [] s = "T-4" -> <<"T", "-", "4">>
    [] s = "T-5" -> <<"T", "-", "5">>
    [] s = "BRID" -> <<"B", "R", "I", "D">>
    [] s = "t-" -> <<"t", "-">>
    [] s = "_" -> <<"_">>
    [] s = "" -> << >>

\* Case folding as ILIKE applies it.
Lower(c) ==
  CASE c = "B" -> "b" [] c = "R" -> "r" [] c = "I" -> "i" [] c = "D" -> "d"
    [] c = "T" -> "t" [] OTHER -> c

\* One character of an ILIKE pattern against one of the text: an underscore
\* matches any character.
PatternChar(pch, c) == pch = "_" \/ Lower(pch) = Lower(c)

\* text ILIKE '%' || term || '%'
ILike(text, term) ==
  LET a == Chars(text)
      b == Chars(term)
  IN \E k \in 0..(Len(a) - Len(b)) :
       \A i \in 1..Len(b) : PatternChar(b[i], a[k + i])

\* GET /api/tenders: the filters object the route builds from the query.  A
\* query value is a string there, so "0" passes `if (clientId)`; an empty
\* string does not.
TenderFilters(q) ==
  [f \in {g \in DOMAIN q \cap {"status", "clientId", "startDate", "endDate",
                              "search"} :
            /\ g \in {"status", "search"} => q[g] # ""
            /\ g = "clientId" => ~IsNaN(q[g])} |-> q[f]]

\* storage.getTenders: the conditions pushed for a filters object; each is
\* pushed when its value is truthy.
TenderMatches(t, f) ==
  /\ ("status" \in DOMAIN f /\ f.status # "") => t.status = f.status
  /\ ("clientId" \in DOMAIN f /\ f.clientId # 0) => t.clientId = f.clientId
  /\ "startDate" \in DOMAIN f => t.publishDate >= f.startDate
  /\ "endDate" \in DOMAIN f => t.publishDate <= f.endDate
  /\ ("search" \in DOMAIN f /\ f.search # "") =>
       ILike(t.title, f.search) \/ ILike(t.referenceNumber, f.search)

\* The rows the where clause selects.
whereClause(f) == {t \in Rows(tenders) : TenderMatches(t, f)}

\* isNaN(pageNum) ? 1 : pageNum, isNaN(limitNum) ? 10 : limitNum
PageNum(q) ==
  LET v == Field(q, "page", DefaultPage) IN IF IsNaN(v) THEN DefaultPage ELSE v
\* The limit parameter as parsed, whatever parseInt made of it.
ParsedLimit(q) == Field(q, "limit", DefaultPageSize)
LimitNum(q) ==
  LET v == Field(q, "limit", DefaultPageSize)
  IN IF IsNaN(v) THEN DefaultPageSize ELSE v

\* An offset that skips the requested page as well.
NextPageOffset(page, limit) == page * limit
\* const offset = (page - 1) * limit
PageOffset(page, limit) == (page - 1) * limit

\* select ... order by created_at desc limit .. offset ..: rows with equal
\* created_at come in any order.
selectTenders(f, page, limit) ==
  {SubSeq(l, PageOffset(page, limit) + 1,
          Min(PageOffset(page, limit) + limit, Len(l))) :
     l \in NewestFirst(whereClause(f), "createdAt")}

\* storage.getTenders: the count(*) statement.
GetTenders(p) ==
  /\ At(p, "getTenders", "start")
  /\ rq' = [rq EXCEPT ![p] =
              [@ EXCEPT !.pc = "select",
                        !.total =
                          Cardinality(whereClause(TenderFilters(rq[p].body)))]]
  /\ UNCHANGED <<tables, seq, sent>>

\* storage.getTenders: the page select, then res.json({tenders, total}).
\* The store refuses a negative LIMIT or OFFSET, and the route answers 500.
GetTendersSelect(p) ==
  /\ At(p, "getTenders", "select")
  /\ LET q == rq[p].body
     IN IF PageOffset(PageNum(q), LimitNum(q)) < 0 \/ LimitNum(q) < 0
        THEN Respond(p, 500, {})
        ELSE \E l \in selectTenders(TenderFilters(q), PageNum(q),
                                    LimitNum(q)) :
               RespondList(p, 200, l)
  /\ UNCHANGED <<tables, seq, sent>>

\* The rows of a listed store differ in every filtered column.
ListedProfiles ==
  {[title |-> "bridge", status |-> "open", clientId |-> 1, publishDate |-> 1],
   [title |-> "road", status |-> "open", clientId |-> NULL, publishDate |-> 2],
   [title |-> "bridge", status |-> "closed", clientId |-> 1,
    publishDate |-> 3]}
ListedRef(i) == <<"T-1", "T-2", "T-3", "T-4", "T-5">>[i]

\* A store after one client and up to MaxListed tenders were created.
InitListing ==
  /\ clients = (1 :> [id |-> 1, name |-> "ministry"])
  /\ \E k \in 0..MaxListed : \E t \in FeedTimes(k) :
     \E prof \in [1..k -> ListedProfiles] :
       /\ tenders =
            [i \in 1..k |->
               NewTenderRow([referenceNumber |-> ListedRef(i),
                             title |-> prof[i].title,
                             status |-> prof[i].status,
                             clientId |-> prof[i].clientId,
                             publishDate |-> prof[i].publishDate], i, t[i])]
       /\ seq = [n \in TableNames |->
                   IF n = "tenders" THEN k ELSE IF n = "clients" THEN 1 ELSE 0]
  /\ users = EmptyTable
  /\ roles = EmptyTable
  /\ companies = EmptyTable
  /\ customers = EmptyTable
  /\ leads = EmptyTable
  /\ documents = EmptyTable
  /\ activities = EmptyTable
  /\ rq = [p \in Procs |-> Idle]
  /\ sent = 0

\* The query strings of the tender list page, and hand-written ones.
ListingFilters ==
  {EmptyTable, [status |-> "open"], [status |-> ""], [clientId |-> 1],
   [clientId |-> 0], [clientId |-> NaN], [startDate |-> 2], [endDate |-> 2],
   [startDate |-> 2, endDate |-> 3], [search |-> "BRID"], [search |-> "t-"],
   [search |-> "_"],
   [status |-> "open", clientId |-> 1, search |-> "BRID"]}
ListingPages ==
  {[page |-> pg, limit |-> l] : pg \in 1..MaxPage, l \in 1..MaxPageSize}
  \cup {[page |-> NaN, limit |-> NaN], [page |-> 2], [limit |-> 1],
        [page |-> NaN, limit |-> 1], [page |-> 2, limit |-> NaN]}
  \cup {[page |-> 0, limit |-> 1], [page |-> 1, limit |-> 0],
        [page |-> 1, limit |-> -2], [page |-> -2, limit |-> 1]}
ListingQueries ==
  ListingFilters
  \cup {[f \in DOMAIN a \cup DOMAIN b |->
           IF f \in DOMAIN a THEN a[f] ELSE b[f]] :
          a \in {EmptyTable, [status |-> "open"]}, b \in ListingPages}

ListingRequests == {NewRequest("getTenders", NULL, q) : q \in ListingQueries}

ListingArrive(p) == Arrive(p, ListingRequests)

\* The list page has one query in flight at a time.
ListingReaders == {1}

ListingNext ==
  \E p \in ListingReaders :
    \/ ListingArrive(p)
    \/ GetTenders(p)
    \/ GetTendersSelect(p)

SpecListing == InitListing /\ [][ListingNext]_vars

\* The list page reads on handler 1 while another client creates and deletes
\* tenders on handler 2, from the empty store.
BrowseQueries ==
  {EmptyTable, [status |-> "open"], [page |-> 1, limit |-> 1],
   [page |-> 2, limit |-> 1]}
BrowseRequests == {NewRequest("getTenders", NULL, q) : q \in BrowseQueries}
EditRequests ==
  {NewRequest("postTender", NULL, b) : b \in TenderBodies}
  \cup {NewRequest("deleteTender", i, EmptyTable) : i \in IdParams}

BrowseArrive == Arrive(1, BrowseRequests)
EditArrive == Arrive(2, EditRequests)

BrowseNext ==
  \/ BrowseArrive
  \/ GetTenders(1)
  \/ GetTendersSelect(1)
  \/ EditArrive
  \/ PostTender(2)
  \/ PostTenderInsert(2)
  \/ PostTenderActivity(2)
  \/ DeleteTender(2)
  \/ DeleteTenderDocuments(2)
  \/ DeleteTenderRow(2)
  \/ DeleteTenderActivity(2)

SpecBrowse == Init /\ [][BrowseNext]_vars

\* The pager walks the pages of one listing: the same filters and limit with
\* another page, each page a request of its own, on a store nobody writes.
SweepQueries ==
  {[f \in DOMAIN a \cup {"page", "limit"} |->
      IF f = "page" THEN pg ELSE IF f = "limit" THEN l ELSE a[f]] :
     a \in {EmptyTable, [status |-> "open"]}, pg \in 1..2,
     l \in 1..MaxPageSize}
SweepRequests == {NewRequest("getTenders", NULL, q) : q \in SweepQueries}
SweepArrive(p) == Arrive(p, SweepRequests)

SweepNext ==
  \E p \in Procs :
    \/ SweepArrive(p)
    \/ GetTenders(p)
    \/ GetTendersSelect(p)

SpecSweep == InitListing /\ [][SweepNext]_vars

\* ==================================================== TENDER MANAGEMENT PAGE
\* The page component's state (filters, page, limit) is kept in handler slot
\* PageView: body is the state, pc the handler that ran last.  An unset date
\* input is NULL.
PageView == 1
PageSizes == {5, 10, 25, 50, 100}
NoFilters ==
  [status |-> "all", clientId |-> "all", startDate |-> NULL,
   endDate |-> NULL, search |-> ""]
\* useState: the filters above, page 1, limit 10.
InitialView ==
  [f \in DOMAIN NoFilters \cup {"page", "limit"} |->
     IF f = "page" THEN DefaultPage
     ELSE IF f = "limit" THEN DefaultPageSize ELSE NoFilters[f]]

\* The filters FilterSection can hand to onApplyFilters.
FilterChoices ==
  [status : {"all", "open"}, clientId : {"all", "1"}, startDate : {NULL, 2},
   endDate : {NULL}, search : {"", "BRID"}]

\* setFilters(f); setPage(1)
WithFilters(v, f) ==
  [g \in DOMAIN v |->
     IF g \in DOMAIN f THEN f[g] ELSE IF g = "page" THEN 1 ELSE v[g]]
\* setLimit(newLimit) alone.
KeepPage(v, newLimit) == [v EXCEPT !.limit = newLimit]
\* setLimit(newLimit); setPage(1)
WithLimit(v, newLimit) == [v EXCEPT !.limit = newLimit, !.page = 1]

\* A handler of the page ran and left state v.
Handled(handler, v) ==
  /\ rq[PageView].op = "TenderManagement"
  /\ rq' = [rq EXCEPT ![PageView] = [@ EXCEPT !.pc = handler, !.body = v]]
  /\ UNCHANGED <<tables, seq, sent>>

handleApplyFilters ==
  \E newFilters \in FilterChoices :
    Handled("handleApplyFilters", WithFilters(rq[PageView].body, newFilters))

handleResetFilters ==
  Handled("handleResetFilters", WithFilters(rq[PageView].body, NoFilters))

\* The pager offers page - 1, page + 1 and numbered pages.
handlePageChange ==
  \E newPage \in 1..MaxPage :
    Handled("handlePageChange", [rq[PageView].body EXCEPT !.page = newPage])

handleLimitChange ==
  \E newLimit \in PageSizes :
    Handled("handleLimitChange", WithLimit(rq[PageView].body, newLimit))

\* The page as mounted, on an empty store.
InitPage ==
  /\ users = EmptyTable
  /\ roles = EmptyTable
  /\ clients = EmptyTable
  /\ companies = EmptyTable
  /\ customers = EmptyTable
  /\ leads = EmptyTable
  /\ tenders = EmptyTable
  /\ documents = EmptyTable
  /\ activities = EmptyTable
  /\ seq = [n \in TableNames |-> 0]
  /\ rq = [p \in Procs |->
             IF p = PageView
             THEN [Idle EXCEPT !.op = "TenderManagement", !.pc = "mounted",
                               !.body = InitialView]
             ELSE Idle]
  /\ sent = 0

PageNext ==
  \/ handleApplyFilters
  \/ handleResetFilters
  \/ handlePageChange
  \/ handleLimitChange

SpecPage == InitPage /\ [][PageNext]_vars

\* ================================================================== claims
\* Handler p takes a step.
Steps(p) == rq'[p] # rq[p]

\* C1: no response that carries User records holds a password field, for the
\* single-record routes (current user, create, update) and the list alike.
C1_NoPasswordInResponse ==
  \A p \in Procs :
    rq[p].op \in {"getCurrentUser", "getUsers", "postUser", "patchUser"}
      => \A u \in rq[p].out : "password" \notin DOMAIN u

\* A list response and a single-record response, both carrying users whose
\* stored rows hold a password.
C1_Witness ==
  \E p, q \in Procs :
    /\ rq[p].op = "getUsers" /\ rq[p].status = 200 /\ rq[p].out # {}
    /\ rq[q].op \in {"getCurrentUser", "patchUser"}
    /\ rq[q].status = 200 /\ rq[q].out # {}
    /\ \A u \in Rows(users) : u.password # ""

\* C2: a create request whose unique key is taken when the handler looks it
\* up is answered 400 by that very step, and the step changes no table:
\* POST /api/tenders on referenceNumber, POST /api/users on username.
C2_DuplicateKeyRefused ==
  [][\A p \in Procs :
       (Steps(p) /\ rq[p].pc = "start") =>
         /\ ( /\ rq[p].op = "postTender"
              /\ "referenceNumber" \in DOMAIN rq[p].body
              /\ \E t \in Rows(tenders) :
                   t.referenceNumber = rq[p].body.referenceNumber )
            => /\ rq'[p].pc = "done" /\ rq'[p].status = 400
               /\ tenders' = tenders /\ activities' = activities
         /\ ( /\ rq[p].op = "postUser"
              /\ "username" \in DOMAIN rq[p].body
              /\ \E u \in Rows(users) : u.username = rq[p].body.username )
            => /\ rq'[p].pc = "done" /\ rq'[p].status = 400
               /\ users' = users /\ activities' = activities
    ]_vars

\* Both refusals have happened on well-formed bodies: a tender create whose
\* referenceNumber is stored and a user create whose username is stored, each
\* answered 400.
C2_Witness ==
  \E p, q \in Procs :
    /\ rq[p].op = "postTender" /\ rq[p].status = 400 /\ ValidTender(rq[p].body)
    /\ \E t \in Rows(tenders) : t.referenceNumber = rq[p].body.referenceNumber
    /\ rq[q].op = "postUser" /\ rq[q].status = 400 /\ ValidUser(rq[q].body)
    /\ \E u \in Rows(users) : u.username = rq[q].body.username

\* C3: no two tender rows share a referenceNumber, under any interleaving of
\* POST /api/tenders and PUT /api/tenders/:id.
C3_ReferenceUnique ==
  \A i, j \in DOMAIN tenders :
    tenders[i].referenceNumber = tenders[j].referenceNumber => i = j

\* The race happened: two creates with one referenceNumber both passed the
\* pre-check; one inserted its row, the other's insert was refused (500).
C3_Witness ==
  \E p, q \in Procs :
    /\ p # q /\ rq[p].op = "postTender" /\ rq[q].op = "postTender"
    /\ rq[p].body.referenceNumber = rq[q].body.referenceNumber
    /\ DOMAIN rq[p].tmp # {} /\ rq[p].tmp.id \in DOMAIN tenders
    /\ rq[q].pc = "done" /\ rq[q].status = 500 /\ DOMAIN rq[q].tmp = {}
    /\ rq[q].body.createdBy = NULL

\* C4: DELETE /api/roles/:id.  When the guard runs with n >= 1 users on the
\* role, the response is 400 with usersCount = n and no role row changes;
\* with no user on the role the handler goes on to the delete, and the delete
\* of an unreferenced role removes the row and answers 204.
C4_RoleDeleteGuard ==
  [][\A p \in Procs :
       (rq[p].op = "deleteRole" /\ Steps(p) /\ ~IsNaN(rq[p].id)) =>
         LET i == rq[p].id
             n == Cardinality({u \in DOMAIN users : users[u].roleId = i})
         IN /\ (rq[p].pc = "start" /\ n >= 1) =>
                 /\ rq'[p].pc = "done" /\ rq'[p].status = 400
                 /\ rq'[p].usersCount = n
                 /\ roles' = roles
            /\ (rq[p].pc = "start" /\ n = 0) => rq'[p].status = 0
            /\ (rq[p].pc = "delete" /\ n = 0 /\ i \in DOMAIN roles) =>
                 /\ rq'[p].status = 204
                 /\ i \notin DOMAIN roles'
                 /\ \A j \in DOMAIN roles \ {i} :
                      j \in DOMAIN roles' /\ roles'[j] = roles[j]
    ]_vars

\* The refusing case with an exact count: both users are on the role, the
\* delete was answered 400 with usersCount = 2, and the role is still there.
C4_Witness ==
  \E p \in Procs :
    /\ rq[p].op = "deleteRole" /\ rq[p].status = 400 /\ rq[p].usersCount = 2
    /\ rq[p].id \in DOMAIN roles
    /\ Cardinality({u \in DOMAIN users : users[u].roleId = rq[p].id}) = 2

\* C5: every user's non-null roleId is the id of an existing role, under any
\* interleaving of role deletes with user creates and updates.
C5_RoleRefIntegrity ==
  \A u \in DOMAIN users :
    users[u].roleId # NULL => users[u].roleId \in DOMAIN roles

\* The race happened: a role delete passed its guard, a user was put on the
\* role before the delete statement, and the store refused the delete.
C5_Witness ==
  \E p \in Procs :
    /\ rq[p].op = "deleteRole" /\ rq[p].status = 500
    /\ \E u \in DOMAIN users : users[u].roleId = rq[p].id
    /\ rq[p].id \in DOMAIN roles

\* Handler p holds a POST /api/users request that got past the username
\* pre-check: only the insert statement answers 201 or 500.
PassedUserCheck(p) ==
  /\ rq[p].op = "postUser"
  /\ rq[p].pc = "insert" \/ rq[p].status \in {201, 500}

\* C6 (as amended): two POST /api/users with one username can both pass the
\* pre-check, but the UNIQUE index on users.username refuses the second
\* insert (that request ends 500): the store never holds two user rows with
\* one username.
C6_UsernameStaysUnique ==
  \A i, j \in DOMAIN users :
    users[i].username = users[j].username => i = j

\* Two requests with one username both passed the pre-check and both ended:
\* one created the user, the other was refused by the store.
C6_Witness ==
  \E p, q \in Procs :
    /\ p # q /\ PassedUserCheck(p) /\ PassedUserCheck(q)
    /\ rq[p].body.username = rq[q].body.username
    /\ rq[p].body.roleId = NULL /\ rq[q].body.roleId = NULL
    /\ rq[p].status = 201 /\ rq[q].status = 500

\* C6 (as stated): once two POST /api/users with one username have both
\* passed the pre-check and both ended, the store holds two user rows with
\* that username.
C6_Original ==
  \A p, q \in Procs :
    (p # q /\ PassedUserCheck(p) /\ PassedUserCheck(q)
       /\ rq[p].pc = "done" /\ rq[q].pc = "done"
       /\ rq[p].body.username = rq[q].body.username
       /\ rq[p].body.roleId = NULL /\ rq[q].body.roleId = NULL)
      => Cardinality({i \in DOMAIN users :
                        users[i].username = rq[p].body.username}) = 2

\* The delete routes and the table each deletes from.
DeleteRoutes ==
  {<<"deleteUser", "users">>, <<"deleteClient", "clients">>,
   <<"deleteTender", "tenders">>, <<"deleteDocument", "documents">>,
   <<"deleteRole", "roles">>, <<"deleteCompany", "companies">>,
   <<"deleteCustomer", "customers">>, <<"deleteLead", "leads">>}

TableOf(n) ==
  CASE n = "users" -> users
    [] n = "roles" -> roles
    [] n = "clients" -> clients
    [] n = "companies" -> companies
    [] n = "customers" -> customers
    [] n = "leads" -> leads
    [] n = "tenders" -> tenders
    [] n = "documents" -> documents
    [] n = "activities" -> activities

\* C7 (as stated): a DELETE answered 204 names an id that a row of the table
\* once had (ids are serial and never reused) and that no row has any more;
\* an id no row ever had is answered 404.
C7_Original ==
  \A p \in Procs : \A r \in DeleteRoutes :
    (rq[p].op = r[1] /\ rq[p].status = 204)
      => /\ rq[p].id \in 1..seq[r[2]]
         /\ rq[p].id \notin DOMAIN TableOf(r[2])

\* C8 (as stated): a DELETE /api/tenders/:id that found its tender, with the
\* user its activity row names in the store, ends 204 with the tender and
\* all its documents gone.
C8_Original ==
  \A p \in Procs :
    ( /\ rq[p].op = "deleteTender" /\ rq[p].pc = "done"
      /\ DOMAIN rq[p].tmp # {}
      /\ OrDefault(rq[p].tmp.createdBy, 1) \in DOMAIN users )
    => /\ rq[p].status = 204
       /\ rq[p].id \notin DOMAIN tenders
       /\ getDocumentsByTenderId(rq[p].id) = {}

\* The identifying field of a record: title (Tender, Lead) or name.
Label(row) == IF "title" \in DOMAIN row THEN row.title ELSE row.name
\* `description` holds the text `s`.
Contains(description, s) == \E k \in DOMAIN description : description[k] = s

\* Request r was answered with the success status of its kind of operation.
Succeeded(r, creates, updates, deletes) ==
  \/ r.op \in creates /\ r.status = 201
  \/ r.op \in updates /\ r.status = 200
  \/ r.op \in deletes /\ r.status = 204

\* C9 (as stated): a successful create, update or delete of a Tender,
\* Customer or Lead has added exactly one Activity row, which holds the
\* record's title or name; an update or delete answered 404 has added none.
\* A create issued by NewTenderProcess with a current user has ended when its
\* follow-up request has.
C9_Original ==
  \A p \in Procs :
    LET r == rq[p]
    IN /\ ( \/ Succeeded(r, {"postTender", "postCustomer", "postLead"},
                            {"putTender", "putCustomer", "patchLead"},
                            {"deleteTender", "deleteCustomer", "deleteLead"})
            \/ /\ r.client = "NewTenderProcess"
               /\ r.op = "postActivity" /\ r.pc = "done" )
          => /\ Cardinality(r.log) = 1
             /\ \A a \in r.log : Contains(a.description, Label(r.tmp))
       /\ ( /\ r.op \in {"putTender", "putCustomer", "patchLead",
                         "deleteTender", "deleteCustomer", "deleteLead"}
            /\ r.status = 404 )
          => r.log = {}

\* C10 (as stated): a POST, PUT or DELETE on /api/companies that succeeded
\* on an existing or new company has added exactly one Activity row, which
\* holds the company's name.
C10_Original ==
  \A p \in Procs :
    ( /\ Succeeded(rq[p], {"postCompany"}, {"putCompany"}, {"deleteCompany"})
      /\ DOMAIN rq[p].tmp # {} )
    => /\ Cardinality(rq[p].log) = 1
       /\ \A a \in rq[p].log : Contains(a.description, rq[p].tmp.name)

\* C11: Activity is append-only: every step leaves each stored Activity row
\* in place with all its fields unchanged.
C11_ActivityAppendOnly ==
  [][\A i \in DOMAIN activities :
       i \in DOMAIN activities' /\ activities'[i] = activities[i]]_vars

\* Two Activity rows are stored, and a DELETE of the tender that one of them
\* names has run to its end.
C11_Witness ==
  /\ Cardinality(DOMAIN activities) >= 2
  /\ \E p \in Procs :
       /\ rq[p].op = "deleteTender" /\ rq[p].pc = "done"
       /\ \E a \in Rows(activities) : a.tenderId = rq[p].id

\* C12 (as stated): an Activity row is stored only when some Tender,
\* Customer, Lead or Company has been created (an update or a delete needs a
\* created row as well).
C12_Original ==
  activities # EmptyTable =>
    seq["tenders"] + seq["customers"] + seq["leads"] + seq["companies"] > 0

C14_ListingPage ==
  [][\A p \in Procs :
       LET q == rq[p].body
           M == whereClause(TenderFilters(q))
           n == Cardinality(M)
           l == rq'[p].list
           lo == (q.page - 1) * q.limit
           hi == Min(q.page * q.limit, n)
           rest == {t \in M : \A k \in 1..Len(l) : l[k].id # t.id}
       IN /\ (At(p, "getTenders", "start") /\ Steps(p)) => rq'[p].total = n
          /\ ( /\ At(p, "getTenders", "select") /\ Steps(p)
               /\ {"page", "limit"} \subseteq DOMAIN q
               /\ ~IsNaN(q.page) /\ ~IsNaN(q.limit)
               /\ q.page >= 1 /\ q.limit >= 1 )
             => /\ rq'[p].status = 200
                /\ rq'[p].total = rq[p].total
                /\ Len(l) = IF hi > lo THEN hi - lo ELSE 0
                /\ \A k \in 1..Len(l) : l[k] \in M
                /\ \A j, k \in 1..Len(l) : j < k =>
                     l[j].id # l[k].id /\ l[j].createdAt >= l[k].createdAt
                /\ Len(l) > 0 =>
                     \E B \in SUBSET rest :
                       /\ Cardinality(B) = lo
                       /\ \A t \in B : t.createdAt >= l[1].createdAt
                       /\ \A t \in rest \ B :
                            t.createdAt <= l[Len(l)].createdAt]_vars
\* C14 witness: page 2 with limit 2 of three tenders was answered with the
\* third row and total 3, the row listed being as old as one left out.
C14_Witness ==
  \E p \in Procs :
    /\ rq[p].op = "getTenders" /\ rq[p].pc = "done" /\ rq[p].status = 200
    /\ rq[p].body = [page |-> 2, limit |-> 2]
    /\ rq[p].total = 3 /\ Len(rq[p].list) = 1
    /\ \E t \in Rows(tenders) :
         t.id # rq[p].list[1].id /\ t.createdAt = rq[p].list[1].createdAt
\* term occurs in text, letter case ignored, every character standing for
\* itself.
ContainsText(text, term) ==
  LET a == Chars(text)
      b == Chars(term)
  IN \E k \in 0..(Len(a) - Len(b)) :
       \A i \in 1..Len(b) : Lower(b[i]) = Lower(a[k + i])

\* The rows a query asks for, filter by filter, whatever value a supplied
\* filter has.
Requested(q) ==
  {t \in Rows(tenders) :
     /\ "status" \in DOMAIN q => t.status = q.status
     /\ "clientId" \in DOMAIN q =>
          t.clientId # NULL /\ t.clientId = q.clientId
     /\ "startDate" \in DOMAIN q => t.publishDate >= q.startDate
     /\ "endDate" \in DOMAIN q => t.publishDate <= q.endDate
     /\ "search" \in DOMAIN q =>
          ContainsText(t.title, q.search)
          \/ ContainsText(t.referenceNumber, q.search)}

\* C15 as stated: a listing answers with exactly the rows that satisfy every
\* supplied filter (status equal, clientId equal, publishDate within
\* [startDate, endDate], search contained in title or referenceNumber
\* without regard to case), for every value a filter can take, falsy ones
\* included: total counts those rows, and a page large enough holds them.
C15_Original ==
  [][\A p \in Procs :
       LET q == rq[p].body
       IN /\ (At(p, "getTenders", "start") /\ Steps(p))
               => rq'[p].total = Cardinality(Requested(q))
          /\ (At(p, "getTenders", "select") /\ Steps(p)
                /\ DOMAIN q \cap {"page", "limit"} = {})
               => {rq'[p].list[k] : k \in 1..Len(rq'[p].list)} = Requested(q)
     ]_vars
\* Handler c has answered 201 to a create of kind o; rq[c].tmp is the row its
\* insert returned and rq[c].body the payload.
Created(c, o) == rq[c].op = o /\ rq[c].pc = "done" /\ rq[c].status = 201

\* Record r carries every field of the payload with the payload's value.
CarriesPayload(r, payload) ==
  \A f \in DOMAIN payload : f \in DOMAIN r /\ r[f] = payload[f]

\* C16 as stated: a get of the id a successful create returned, the row not
\* having been written in between (the row read is the row the insert
\* returned), answers with a record that carries the payload's fields with
\* the payload's values, the assigned id and, for a Tender, the timestamps.
C16_Original ==
  [][\A p, c \in Procs :
       /\ ( /\ At(p, "getTender", "documents") /\ Steps(p)
            /\ Created(c, "postTender")
            /\ rq[p].id = rq[c].tmp.id /\ rq[p].tmp = rq[c].tmp )
          => /\ rq'[p].status = 200
             /\ \A r \in rq'[p].out :
                  /\ CarriesPayload(r, rq[c].body)
                  /\ r.id = rq[p].id
                  /\ {"createdAt", "updatedAt"} \subseteq DOMAIN r
       /\ ( /\ At(p, "getLead", "start") /\ Steps(p)
            /\ Created(c, "postLead")
            /\ rq[p].id = rq[c].tmp.id
            /\ rq[p].id \in DOMAIN leads /\ leads[rq[p].id] = rq[c].tmp )
          => /\ rq'[p].status = 200
             /\ \A r \in rq'[p].out :
                  CarriesPayload(r, rq[c].body) /\ r.id = rq[p].id
     ]_vars
\* The update route of each table that has one.
UpdateRoutes ==
  {<<"patchUser", "users">>, <<"putTender", "tenders">>,
   <<"putCompany", "companies">>, <<"putCustomer", "customers">>,
   <<"patchLead", "leads">>}

\* C17: whenever a row that stays in its table changes, an update request for
\* that table and that id is taking its step, and every field of the row that
\* changed is a field of the request's payload or updatedAt; no other row of
\* the table changes in that step.  A Tender update that is applied gives the
\* supplied fields the payload's values and sets updatedAt to a time no
\* earlier than any time stored in the table.
C17_PartialUpdate ==
  [][/\ \A n \in TableNames :
          \A i \in DOMAIN TableOf(n) \cap DOMAIN TableOf(n)' :
            TableOf(n)'[i] # TableOf(n)[i] =>
              \E p \in Procs :
                /\ Steps(p) /\ <<rq[p].op, n>> \in UpdateRoutes
                /\ rq[p].id = i
                /\ \A f \in DOMAIN TableOf(n)[i] :
                     TableOf(n)'[i][f] # TableOf(n)[i][f] =>
                       f \in DOMAIN rq[p].body \cup {"updatedAt"}
                /\ \A j \in (DOMAIN TableOf(n) \cap DOMAIN TableOf(n)') \ {i} :
                     TableOf(n)'[j] = TableOf(n)[j]
     /\ \A p \in Procs :
          (At(p, "putTender", "update") /\ Steps(p) /\ rq'[p].pc = "activity")
            => LET i == rq[p].id
               IN /\ \A f \in DOMAIN rq[p].body \cap DOMAIN tenders[i] :
                       tenders'[i][f] = rq[p].body[f]
                  /\ \A t \in Rows(tenders) :
                       /\ tenders'[i].updatedAt >= t.updatedAt
                       /\ tenders'[i].updatedAt >= t.createdAt
                  /\ DOMAIN tenders' = DOMAIN tenders]_vars
\* C17 witness: of two stored tenders, the one created by user 1 was given a
\* new title by a PUT answered 200, at a time later than its creation.
C17_Witness ==
  \E p \in Procs :
    /\ rq[p].op = "putTender" /\ rq[p].pc = "done" /\ rq[p].status = 200
    /\ rq[p].body = [title |-> "road"]
    /\ Cardinality(DOMAIN tenders) = 2
    /\ rq[p].id \in DOMAIN tenders
    /\ tenders[rq[p].id].title = "road"
    /\ tenders[rq[p].id].createdBy = 1
    /\ tenders[rq[p].id].updatedAt > tenders[rq[p].id].createdAt
\* C18 as stated: an update request for an id that no row of the table has
\* or has had (ids are serial) changes no row of any table, adds no Activity
\* row, and is answered 404, whatever its body.
C18_Original ==
  [][\A p \in Procs : \A n \in TableNames :
       ( /\ <<rq[p].op, n>> \in UpdateRoutes
         /\ Steps(p) /\ rq[p].pc # "done"
         /\ ~IsNaN(rq[p].id) /\ rq[p].id > seq[n] )
       => /\ tables' = tables
          /\ rq'[p].pc = "done" => rq'[p].status = 404]_vars
\* The payload of handler p names a reference number that a tender other
\* than the one addressed holds.
ForeignReference(p) ==
  /\ "referenceNumber" \in DOMAIN rq[p].body
  /\ \E t \in Rows(tenders) :
       t.id # rq[p].id /\ t.referenceNumber = rq[p].body.referenceNumber
\* The payload of handler p names the reference number the addressed tender
\* holds.
OwnReference(p) ==
  /\ "referenceNumber" \in DOMAIN rq[p].body
  /\ rq[p].id \in DOMAIN tenders
  /\ tenders[rq[p].id].referenceNumber = rq[p].body.referenceNumber

\* C19 as stated: a PUT whose referenceNumber belongs to a different stored
\* tender is answered 400 by its first statement and changes no row; a PUT
\* with the tender's own referenceNumber passes the check, and its update
\* statement is applied.
C19_Original ==
  [][\A p \in Procs :
       /\ (At(p, "putTender", "start") /\ Steps(p) /\ ~IsNaN(rq[p].id)
             /\ ForeignReference(p))
          => /\ rq'[p].pc = "done" /\ rq'[p].status = 400
             /\ tables' = tables
       /\ (At(p, "putTender", "start") /\ Steps(p) /\ OwnReference(p))
          => rq'[p].pc = "update" /\ tables' = tables
       /\ (At(p, "putTender", "update") /\ Steps(p) /\ OwnReference(p))
          => /\ rq'[p].pc = "activity"
             /\ \A f \in DOMAIN rq[p].body \cap DOMAIN tenders[rq[p].id] :
                  tenders'[rq[p].id][f] = rq[p].body[f]]_vars
\* Body b breaks the insert schema of the entity that POST route o creates: a
\* required key is missing, or a Lead's title is empty or its companyId is
\* below 1.
SchemaViolated(o, b) ==
  CASE o = "postUser" -> ~(UserRequired \subseteq DOMAIN b)
    [] o = "postTender" -> ~(TenderRequired \subseteq DOMAIN b)
    [] o = "postActivity" -> ~(ActivityRequired \subseteq DOMAIN b)
    [] o = "postDocument" -> "tenderId" \notin DOMAIN b
    [] o \in {"postRole", "postCompany", "postClient", "postCustomer"} ->
         "name" \notin DOMAIN b
    [] o = "postLead" ->
         \/ ~({"title", "companyId"} \subseteq DOMAIN b)
         \/ b.title = ""
         \/ b.companyId < 1
    [] OTHER -> FALSE

\* C20: the first step of a POST whose body breaks the entity's insert schema
\* ends the request with 400 and leaves every table and every id sequence as
\* it was: no entity row and no Activity row is added.
C20_InvalidBodyRejected ==
  [][\A p \in Procs :
       (rq[p].pc = "start" /\ Steps(p)
          /\ SchemaViolated(rq[p].op, rq[p].body))
       => /\ rq'[p].pc = "done" /\ rq'[p].status = 400
          /\ rq'[p].out = {} /\ rq'[p].log = {}
          /\ tables' = tables /\ seq' = seq]_vars
\* C20 witness: with company 1 stored, a POST /api/leads for that company
\* with an empty title was answered 400 and no lead is stored.
C20_Witness ==
  \E p \in Procs :
    /\ rq[p].op = "postLead" /\ rq[p].pc = "done" /\ rq[p].status = 400
    /\ rq[p].body = [title |-> "", companyId |-> 1]
    /\ 1 \in DOMAIN companies
    /\ DOMAIN leads = {}
\* C21 as stated: whatever gateway call fails, no rejection leaves a handler
\* unconverted, and a request that has ended and was not answered with a
\* success status was answered with a 4xx or 500 response of the handler.
C21_Original ==
  \A p \in Procs :
    /\ rq[p].pc # "rejected"
    /\ (rq[p].op # "none" /\ rq[p].pc = "done")
         => rq[p].status \in {200, 201, 204, 400, 404, 500}
\* Parameter f of query q is absent or is not a number after parseInt.
Unparsed(q, f) == f \notin DOMAIN q \/ IsNaN(q[f])
\* Query q without its parameter f.
Without(q, f) == [g \in DOMAIN q \ {f} |-> q[g]]

\* C22: a listing whose page is absent or unparsable reads from offset
\* (1-1)*limit, one whose limit is absent or unparsable reads at most 10
\* rows, and a clientId that does not parse is ignored: the request is
\* answered 200 and counts the rows the other filters select.  With fewer
\* than 10 rows stored, page 1 under limit 10 is every selected row, page 1
\* under a given limit L its first min(L, total) rows, and page 2 under
\* limit 10 is empty.
C22_ListingDefaults ==
  [][\A p \in Procs :
       LET q == rq[p].body
           l == rq'[p].list
           n == rq[p].total
       IN /\ (At(p, "getTenders", "start") /\ Steps(p)
                /\ "clientId" \in DOMAIN q /\ IsNaN(q.clientId))
             => /\ rq'[p].pc = "select"
                /\ rq'[p].total =
                     Cardinality(whereClause(TenderFilters(
                                               Without(q, "clientId"))))
          /\ (At(p, "getTenders", "select") /\ Steps(p)
                /\ (Unparsed(q, "page") \/ Unparsed(q, "limit")))
             => /\ rq'[p].status = 200
                /\ \A k \in 1..Len(l) : l[k] \in whereClause(TenderFilters(q))
                /\ (Unparsed(q, "page") /\ Unparsed(q, "limit"))
                     => Len(l) = Min(DefaultPageSize, n)
                /\ (Unparsed(q, "page") /\ ~Unparsed(q, "limit")
                      /\ q.limit >= 0)
                     => /\ Len(l) = Min(q.limit, n)
                        /\ Len(l) > 0 =>
                             \A t \in whereClause(TenderFilters(q)) :
                               t.createdAt <= l[1].createdAt
                /\ (~Unparsed(q, "page") /\ q.page >= 1
                      /\ Unparsed(q, "limit"))
                     => LET lo == (q.page - 1) * DefaultPageSize
                        IN Len(l) = IF n > lo
                                    THEN Min(DefaultPageSize, n - lo) ELSE 0
     ]_vars
\* C22 witness: a listing with unparsable page and limit, or with an
\* unparsable clientId, was answered with all three stored tenders.
C22_Witness ==
  \E p \in Procs :
    /\ rq[p].op = "getTenders" /\ rq[p].pc = "done" /\ rq[p].status = 200
    /\ rq[p].body \in {[page |-> NaN, limit |-> NaN], [clientId |-> NaN]}
    /\ rq[p].total = 3 /\ Len(rq[p].list) = 3
\* C23: a PATCH /api/users/:id whose body has no password or an empty one
\* never changes the stored password of any user, and when it is answered
\* 200 the addressed user holds the other supplied fields' values.
C23_EmptyPasswordKept ==
  [][\A p \in Procs :
       (At(p, "patchUser", "start") /\ Steps(p)
          /\ ("password" \notin DOMAIN rq[p].body \/ rq[p].body.password = ""))
       => /\ \A i \in DOMAIN users \cap DOMAIN users' :
               users'[i].password = users[i].password
          /\ DOMAIN users' = DOMAIN users
          /\ rq'[p].status = 200 =>
               \A f \in (DOMAIN rq[p].body \ {"password"})
                          \cap DOMAIN users[rq[p].id] :
                 users'[rq[p].id][f] = rq[p].body[f]]_vars
\* C23 witness: a PATCH with an empty password and a new name was answered
\* 200; the user has the new name and the password it was created with.
C23_Witness ==
  \E p \in Procs :
    /\ rq[p].op = "patchUser" /\ rq[p].pc = "done" /\ rq[p].status = 200
    /\ rq[p].body = [password |-> "", name |-> "m"]
    /\ rq[p].id \in DOMAIN users
    /\ users[rq[p].id].name = "m" /\ users[rq[p].id].password = "pw"
\* The filters of page state v.
FiltersOf(v) == [f \in DOMAIN NoFilters |-> v[f]]

\* C24: after handleApplyFilters, handleResetFilters or handleLimitChange the
\* current page is 1 (and a reset leaves the initial filters); a
\* handlePageChange leaves filters and page size as they were.
C24_PageResets ==
  [][LET v == rq[PageView].body
         w == rq'[PageView].body
         h == rq'[PageView].pc
     IN Steps(PageView) =>
          /\ h \in {"handleApplyFilters", "handleResetFilters",
                    "handleLimitChange"} => w.page = 1
          /\ h = "handleResetFilters" => FiltersOf(w) = NoFilters
          /\ h = "handleLimitChange" => FiltersOf(w) = FiltersOf(v)
          /\ h = "handleApplyFilters" => w.limit = v.limit
          /\ h = "handlePageChange" =>
               FiltersOf(w) = FiltersOf(v) /\ w.limit = v.limit]_vars
\* C24 witness: on page 3 with filters set, the page size was changed to 25
\* and the page is 1 again with the filters kept.
C24_Witness ==
  /\ rq[PageView].op = "TenderManagement"
  /\ rq[PageView].pc = "handleLimitChange"
  /\ rq[PageView].body.limit = 25 /\ rq[PageView].body.page = 1
  /\ rq[PageView].body.status = "open" /\ rq[PageView].body.search = "BRID"

\* C25 (as stated): when a DELETE /api/tenders/:id that found its tender has
\* ended, whatever its status, either the tender and all its documents are
\* gone, or the tender is still stored and the request removed none of its
\* documents.
C25_Original ==
  \A p \in Procs :
    ( /\ rq[p].op = "deleteTender" /\ rq[p].pc = "done"
      /\ DOMAIN rq[p].tmp # {} )
    => \/ /\ rq[p].id \notin DOMAIN tenders
          /\ getDocumentsByTenderId(rq[p].id) = {}
       \/ /\ rq[p].id \in DOMAIN tenders
          /\ rq[p].removed = {}

\* The create routes of Customer, Tender and Lead, each with its table.
CreateRoutes ==
  {<<"postCustomer", "customers">>, <<"postTender", "tenders">>,
   <<"postLead", "leads">>}

\* C26 (as stated): a POST /api/customers, /api/tenders or /api/leads that
\* has ended with status 500 has added no row: the row it inserted, if it
\* inserted one, is not in the table.
C26_Original ==
  \A p \in Procs : \A r \in CreateRoutes :
    (rq[p].op = r[1] /\ rq[p].pc = "done" /\ rq[p].status = 500)
      => \/ DOMAIN rq[p].tmp = {}
         \/ rq[p].tmp.id \notin DOMAIN TableOf(r[2])

\* C27 (as stated): a tender listing answered 200 holds no more items than
\* the total sent with it, also while tenders are created and deleted.
C27_Original ==
  \A p \in Procs :
    (rq[p].op = "getTenders" /\ rq[p].pc = "done" /\ rq[p].status = 200)
      => Len(rq[p].list) <= rq[p].total

\* The tenders on a returned page.
OnPage(r) == {r.list[k] : k \in DOMAIN r.list}
\* Pages 1 and 2 are all the pages of a listing of `total` rows by `limit`.
TwoPages(total, limit) == limit < total /\ total <= 2 * limit

\* C28 (as stated): on an unchanging store, two answered listings with the
\* same filters and limit and different pages share no tender, and when
\* pages 1 and 2 are all the pages, the two together hold every matching
\* tender.
C28_Original ==
  \A p, q \in Procs :
    ( /\ rq[p].op = "getTenders" /\ rq[p].pc = "done" /\ rq[p].status = 200
      /\ rq[q].op = "getTenders" /\ rq[q].pc = "done" /\ rq[q].status = 200
      /\ Without(rq[p].body, "page") = Without(rq[q].body, "page")
      /\ PageNum(rq[p].body) # PageNum(rq[q].body) )
    => /\ OnPage(rq[p]) \cap OnPage(rq[q]) = {}
       /\ TwoPages(rq[p].total, LimitNum(rq[p].body))
            => OnPage(rq[p]) \cup OnPage(rq[q])
                 = whereClause(TenderFilters(rq[p].body))

\* C29: in every reachable state each stored Document's tenderId is the id
\* of a stored Tender, however POST /api/documents and DELETE
\* /api/tenders/:id interleave.
C29_DocumentHasTender ==
  \A d \in Rows(documents) : d.tenderId \in DOMAIN tenders
\* C29 witness: a DELETE /api/tenders/:id has deleted the tender's documents
\* and not yet the tender, and a POST /api/documents answered 201 has stored
\* a document of that tender meanwhile.
C29_Witness ==
  \E p, q \in Procs :
    /\ rq[p].op = "deleteTender" /\ rq[p].pc = "deleteTender"
    /\ rq[p].removed # {}
    /\ rq[q].op = "postDocument" /\ rq[q].status = 201
    /\ \E d \in rq[q].out : d.tenderId = rq[p].id /\ d \in Rows(documents)

\* C30 (as stated): whatever integers the query string gives for page and
\* limit, the page select of a listing is executed with an offset of at
\* least 0 and a limit of at least 1.
C30_Original ==
  \A p \in Procs :
    At(p, "getTenders", "select")
      => /\ PageOffset(PageNum(rq[p].body), LimitNum(rq[p].body)) >= 0
         /\ LimitNum(rq[p].body) >= 1
====
